---- MODULE Spec2Model ----
(***************************************************************************)
(* Auto-Analyst backend: the planned plan executor with its streaming      *)
(* transport (src/agents/agents.py, app.py) and the deep-analysis stream   *)
(* with its report row (app.py).                                           *)
(***************************************************************************)
EXTENDS Integers, Sequences, FiniteSets, TLC

\* ------------------------------------------------------------------ bounds
\* longest plan text, counted in "->"-separated segments
MaxSteps == 3
\* deep-analysis requests made on the session
MaxRuns == 2
\* requests of any kind the handlers take on the session
MaxRequests == 3
\* requests made of the template registry (reads, toggles, agent calls)
MaxRegistryRequests == 2

\* names in the specified_agent argument of one individual request
MaxAgents == 3

\* ------------------------------------------------------- names and strings
BasicQA == "basic_qa_agent"

\* agents.py:1802  agents exempt from usage tracking
UntrackedAgents ==
  {"preprocessing_agent", "statistical_analytics_agent", "sk_learn_agent",
   "data_viz_agent", "basic_qa_agent"}

\* agent names an auto_analyst instance may hold besides basic_qa_agent
Loadable == {"data_viz_agent", "custom_agent", "code_combiner_agent__openai"}

\* names of the rows of the agent_templates table, which usage tracking
\* looks up by name
TemplateNames ==
  {"planner_preprocessing_agent", "planner_data_viz_agent", "custom_agent",
   "helper_agent", "data_viz_agent", "retired_agent",
   "planner_matplotlib_agent", "planner_polars_agent", "planner_seaborn_agent",
   "planner_xgboost_agent", "planner_pytorch_agent", "planner_duckdb_agent",
   "planner_scipy_agent", "planner_prophet_agent"}

\* the "->"-separated segments a planner answer is built from
Segments ==
  {"", "basic_qa_agent", "data_viz_agent", "custom_agent",
   "Plan: Custom_Agent ", "my_basic_qa_agent", "code_combiner_agent__openai"}

\* app.py:454
RESPONSE_ERROR_INVALID_QUERY == "Please provide a valid query..."
NO_PLAN_FOUND == "**No plan found**"
TIMEOUT_MESSAGE == "The request timed out. Please try a simpler query."
GENERIC_MESSAGE == "An error occurred while generating responses. Please try again!"
NO_RESPONSE == "No response generated"

\* ---------------------------------------------------------- pure functions
\* segment.lower().replace("plan:", "").strip()
NormalizeSegment(s) ==
  IF s \in {"Plan: Custom_Agent ", "Custom_Agent"} THEN "custom_agent" ELSE s

\* "basic_qa_agent" in segment   (substring test)
SegmentContainsQA(s) == s \in {"basic_qa_agent", "my_basic_qa_agent"}

\* "basic_qa_agent" in plan_text
ContainsBasicQA(text) ==
  \E i \in 1..Len(text) : SegmentContainsQA(NormalizeSegment(text[i]))

RECURSIVE SplitPlan(_)
\* [agent.strip() for agent in plan_text.split("->") if agent.strip()]
SplitPlan(text) ==
  IF text = << >> THEN << >>
  ELSE LET h == NormalizeSegment(Head(text))
       IN  IF h = "" THEN SplitPlan(Tail(text))
           ELSE <<h>> \o SplitPlan(Tail(text))

\* NoValidAgents without its second test
NoValidAgentsEmptyOnly(plan_list, loaded) == plan_list = << >>

\* not plan_list or all(agent not in self.agents for agent in plan_list)
NoValidAgents(plan_list, loaded) ==
  \/ plan_list = << >>
  \/ \A i \in 1..Len(plan_list) : plan_list[i] \notin loaded

\* agent_name.split("__")[0] if "__" in agent_name else agent_name
FrameAgent(name) ==
  IF name = "code_combiner_agent__openai" THEN "code_combiner_agent" ELSE name

\* format_response_to_markdown({agent: response}) for the response kinds
\*   "result"        an agent output with renderable content
\*   "empty"         an agent output with nothing in it
\*   "unrenderable"  an output rendered as the invalid-query message
\*   "error"         an {error: ...} entry
FormatResponse(kind) ==
  CASE kind = "result" -> "content"
    [] kind = "empty" -> ""
    [] kind = "unrenderable" -> RESPONSE_ERROR_INVALID_QUERY
    [] kind = "error" -> "**Error**"

\* truthiness of the response dict
Truthy(kind) == kind # "empty"

\* ------------------------------------------------------------ the registry
\* user ids that own preference rows; 0 stands for no user
Users == {1, 2}

\* agents.py:138-143, 1579, 1645
CorePlannerNames ==
  {"planner_preprocessing_agent", "planner_statistical_analytics_agent",
   "planner_sk_learn_agent", "planner_data_viz_agent"}

\* app.py:345-351  the agents get_deep_analyzer falls back to
CoreAgentNames ==
  {"preprocessing_agent", "statistical_analytics_agent", "sk_learn_agent",
   "data_viz_agent"}

\* rows of the agent_templates table: variant_type and is_active by name
AgentTemplates ==
  [t \in TemplateNames |->
     CASE t = "custom_agent" -> [variant_type |-> "both", is_active |-> TRUE]
       [] t \in {"helper_agent", "data_viz_agent"} ->
            [variant_type |-> "individual", is_active |-> TRUE]
       [] t = "retired_agent" -> [variant_type |-> "both", is_active |-> FALSE]
       [] OTHER -> [variant_type |-> "planner", is_active |-> TRUE]]

\* enabled_templates[:10]
PlannerTemplateCap == 10

\* a user's preference rows: "none" where the user has no row for a template
NoPreferences == [t \in DOMAIN AgentTemplates |-> "none"]

\* preference rows used as inputs: defaults, a custom template switched on,
\* every planner template switched off, only the custom template left on
PreferenceProfiles ==
  { NoPreferences,
    [NoPreferences EXCEPT !["custom_agent"] = "on"],
    [NoPreferences EXCEPT !["planner_preprocessing_agent"] = "off",
                          !["planner_data_viz_agent"] = "off"],
    [NoPreferences EXCEPT !["planner_preprocessing_agent"] = "off",
                          !["planner_data_viz_agent"] = "off",
                          !["custom_agent"] = "on"] }

\* is_enabled = preference.is_enabled if preference else default_enabled
IsEnabledForPlanner(rows, t) ==
  IF rows[t] = "none" THEN t \in CorePlannerNames ELSE rows[t] = "on"

\* the templates that pass the filter and the is_enabled test (146-172)
EnabledPlannerTemplates(rows) ==
  {t \in DOMAIN AgentTemplates :
     /\ AgentTemplates[t].is_active
     /\ AgentTemplates[t].variant_type \in {"planner", "both"}
     /\ IsEnabledForPlanner(rows, t)}

\* load_user_enabled_templates_for_planner_from_db(user_id, db_session): the
\* sets of names it can return.  The order among templates of equal usage is
\* the order of the query result, so the cut at the cap can keep any of them.
LoadPlannerTemplates(user, rows, db_ok) ==
  IF user = 0 \/ ~db_ok THEN {{}}
  ELSE LET enabled == EnabledPlannerTemplates(rows)
       IN  IF Cardinality(enabled) <= PlannerTemplateCap THEN {enabled}
           ELSE {S \in SUBSET enabled : Cardinality(S) = PlannerTemplateCap}

\* auto_analyst.__init__: the keys of self.agents built for a user from the
\* templates the loader returned
AutoAnalystAgents(user, rows, loaded) ==
  LET templates == loaded \ CorePlannerNames
      core == IF templates = {} /\ user # 0
              THEN {t \in CorePlannerNames \cap DOMAIN AgentTemplates :
                      /\ AgentTemplates[t].is_active
                      /\ (rows[t] = "none" \/ rows[t] = "on")}
              ELSE {}
  IN  templates \cup core \cup {BasicQA}

\* auto_analyst.__init__ when the store can raise: the queries of the core
\* branch (1639-1694) are inside a try whose except only logs, so a store
\* that raises leaves what was loaded before, and basic_qa_agent
AutoAnalystAgentsBuilt(user, rows, loaded, db_ok) ==
  IF db_ok \/ user = 0 THEN AutoAnalystAgents(user, rows, loaded)
  ELSE (loaded \ CorePlannerNames) \cup {BasicQA}

\* the agents of an AI system built for a user whose loads all succeed
AgentsBuiltFor(user, rows) ==
  AutoAnalystAgents(user, rows,
                    CHOOSE L \in LoadPlannerTemplates(user, rows, TRUE) : TRUE)

\* ----------------------------------------------------- the preference store
\* a row of user_template_preferences without its keys and timestamps;
\* last_used_at is 0 for None and a positive time otherwise
PreferenceRow(is_enabled, count, last_used_at) ==
  [is_enabled |-> is_enabled, usage_count |-> count, last_used_at |-> last_used_at]

\* query(UserTemplatePreference).filter(user_id, template_id).first(): the
\* row as a sequence of length one, << >> for None
FirstPreference(tbl, user, t) ==
  IF user \in Users /\ t \in TemplateNames /\ tbl[user][t] # << >>
  THEN << tbl[user][t][1] >> ELSE << >>

\* the is_enabled column of a user's rows, "none" where there is no row
PreferenceOf(tbl, user) ==
  [t \in TemplateNames |->
     LET preference == FirstPreference(tbl, user, t)
     IN  IF preference = << >> THEN "none"
         ELSE IF preference[1].is_enabled THEN "on" ELSE "off"]

\* agent_templates in template_id order, which is the order the seeding
\* script inserts them in (populate_agent_templates.py)
TemplateIds ==
  << "data_viz_agent", "planner_preprocessing_agent", "planner_data_viz_agent",
     "planner_matplotlib_agent", "planner_polars_agent", "custom_agent",
     "helper_agent", "retired_agent", "planner_seaborn_agent",
     "planner_xgboost_agent", "planner_pytorch_agent", "planner_duckdb_agent",
     "planner_scipy_agent", "planner_prophet_agent" >>

Reversed(s) == [i \in 1..Len(s) |-> s[Len(s) + 1 - i]]

\* the orders query(AgentTemplate)...all() may return the rows in: the
\* queries carry no ORDER BY
QueryOrders == {TemplateIds, Reversed(TemplateIds)}

\* preference.usage_count if preference else 0
UsageCountOf(tbl, user, t) ==
  LET preference == FirstPreference(tbl, user, t)
  IN  IF preference = << >> THEN 0 ELSE preference[1].usage_count

\* preference.last_used_at if preference else None, with
\* None or datetime.min as 0
LastUsedOf(tbl, user, t) ==
  LET preference == FirstPreference(tbl, user, t)
  IN  IF preference = << >> THEN 0 ELSE preference[1].last_used_at

\* (usage_count, last_used_at) of a is at least that of b, as tuples
UsageKeyAtLeast(tbl, user, a, b) ==
  \/ UsageCountOf(tbl, user, a) > UsageCountOf(tbl, user, b)
  \/ /\ UsageCountOf(tbl, user, a) = UsageCountOf(tbl, user, b)
     /\ LastUsedOf(tbl, user, a) >= LastUsedOf(tbl, user, b)

\* SortByUsage for a loader that cuts the list without sorting it
SortByUsageSkipped(list, tbl, user) == list

RECURSIVE SortByUsage(_, _, _)
\* enabled_templates.sort(key=(usage_count, last_used_at), reverse=True):
\* descending, and stable: items of equal key keep their order
SortByUsage(list, tbl, user) ==
  IF list = << >> THEN << >>
  ELSE LET n == Len(list)
           x == list[n]
           sorted == SortByUsage(SubSeq(list, 1, n - 1), tbl, user)
           k == Cardinality({i \in 1..Len(sorted) :
                               UsageKeyAtLeast(tbl, user, sorted[i], x)})
       IN  SubSeq(sorted, 1, k) \o << x >> \o SubSeq(sorted, k + 1, Len(sorted))

\* the loop of lines 152-172 over the query result: the enabled planner
\* templates in query order
EnabledPlannerList(tbl, user, order) ==
  LET enabled == EnabledPlannerTemplates(PreferenceOf(tbl, user))
  IN  SelectSeq(order, LAMBDA t : t \in enabled)

\* lines 175-176: sort by usage, then enabled_templates[:10]
RankedPlannerTemplates(tbl, user, order) ==
  LET sorted == SortByUsage(EnabledPlannerList(tbl, user, order), tbl, user)
  IN  SubSeq(sorted, 1, IF Len(sorted) < PlannerTemplateCap
                        THEN Len(sorted) ELSE PlannerTemplateCap)

Range(s) == {s[i] : i \in 1..Len(s)}

\* load_user_enabled_templates_for_planner_from_db(user_id, db_session): the
\* keys of the dict it returns for a table and a query order
LoadUserEnabledTemplatesForPlanner(tbl, user, order, db_ok) ==
  IF user = 0 \/ ~db_ok THEN {}
  ELSE Range(RankedPlannerTemplates(tbl, user, order))

\* agents.py:73-78  default_agent_names of load_user_enabled_templates_from_db
DefaultAgentNames == CoreAgentNames

\* load_user_enabled_templates_from_db(user_id, db_session): the keys of the
\* dict it returns
LoadUserEnabledTemplates(tbl, user, db_ok) ==
  IF user = 0 \/ ~db_ok THEN {}
  ELSE {t \in TemplateNames :
          /\ AgentTemplates[t].is_active
          /\ LET preference == FirstPreference(tbl, user, t)
             IN  IF preference = << >> THEN t \in DefaultAgentNames
                 ELSE preference[1].is_enabled}

\* LoadAllAvailableTemplates for a loader that keeps only the templates the
\* user has enabled
LoadAllAvailableTemplatesEnabledOnly(tbl, user, db_ok) ==
  LoadUserEnabledTemplates(tbl, user, db_ok)

\* load_all_available_templates_from_db(db_session): the keys of the dict
\* it returns; the table of preferences and the user are not arguments of
\* the function and are carried here to show they are not read
LoadAllAvailableTemplates(tbl, user, db_ok) ==
  IF ~db_ok THEN {}
  ELSE {t \in TemplateNames :
          /\ AgentTemplates[t].is_active
          /\ AgentTemplates[t].variant_type \in {"individual", "both"}}

\* auto_analyst_ind.__init__(agents=[], user_id, db_session): the keys of
\* self.agents
AutoAnalystIndAgents(tbl, user, core_ok, db_ok) ==
  LET core == IF user # 0 /\ core_ok
              THEN {c \in CoreAgentNames \cap TemplateNames :
                      AgentTemplates[c].is_active}
              ELSE CoreAgentNames
      templates == IF user # 0
                   THEN LoadAllAvailableTemplates(tbl, user, db_ok) \ CoreAgentNames
                   ELSE {}
  IN  core \cup templates \cup {BasicQA}

\* the variant_type query parameter of the preference routes
VariantTypes == {"planner", "individual", "all", "other"}

\* templates_routes.py:155-167  the templates a preference route lists
ListedTemplates(variant_type) ==
  {t \in TemplateNames :
     /\ AgentTemplates[t].is_active
     /\ CASE variant_type = "all" -> TRUE
          [] variant_type = "individual" ->
               AgentTemplates[t].variant_type \in {"individual", "both"}
          [] OTHER -> AgentTemplates[t].variant_type \in {"planner", "both"}}

\* templates_routes.py:171-184  default_agent_names of a preference route
RouteDefaultNames(variant_type) ==
  IF variant_type = "planner" THEN CorePlannerNames ELSE CoreAgentNames

\* get_user_template_preferences / get_user_enabled_templates: the
\* templates the answer reports as enabled
RouteEnabledTemplates(tbl, user, variant_type) ==
  {t \in ListedTemplates(variant_type) :
     LET preference == FirstPreference(tbl, user, t)
     IN  IF preference = << >> THEN t \in RouteDefaultNames(variant_type)
         ELSE preference[1].is_enabled}

\* InsertPreference for a table without its unique constraint
InsertPreferenceUnchecked(tbl, user, t, row) ==
  [ok |-> TRUE, tbl |-> [tbl EXCEPT ![user][t] = Append(@, row)]]

\* db_session.add(preference); commit(): models.py:233-235 makes the commit
\* fail when the table already holds a row of the pair
InsertPreference(tbl, user, t, row) ==
  IF tbl[user][t] # << >>
  THEN [ok |-> FALSE, tbl |-> tbl]
  ELSE [ok |-> TRUE, tbl |-> [tbl EXCEPT ![user][t] = << row >>]]

\* toggle_user_template_preference(user_id, template_id, is_enabled,
\* db_session), for what its query of the pair found: (success, table)
ToggleUserTemplatePreference(tbl, user, t, is_enabled, found, db_ok) ==
  IF ~db_ok \/ t \notin TemplateNames \/ ~AgentTemplates[t].is_active
  THEN [ok |-> FALSE, tbl |-> tbl]
  ELSE IF found # << >>
  THEN [ok |-> TRUE, tbl |-> [tbl EXCEPT ![user][t][1].is_enabled = is_enabled]]
  ELSE InsertPreference(tbl, user, t, PreferenceRow(is_enabled, 0, 0))

\* datetime.now(UTC): later than every time in the table
TimeNow(tbl) ==
  LET held == {ut \in Users \X TemplateNames : tbl[ut[1]][ut[2]] # << >>}
      times == {0} \cup {tbl[ut[1]][ut[2]][1].last_used_at : ut \in held}
  IN  1 + CHOOSE latest \in times : \A time \in times : latest >= time

\* _track_agent_usage(agent_name) of auto_analyst and of auto_analyst_ind,
\* for what its query of the pair found: the table afterwards
TrackUsageInStore(tbl, system_user, name, found, db_ok) ==
  IF \/ name \in UntrackedAgents
     \/ system_user = 0
     \/ name \notin TemplateNames
     \/ ~db_ok
  THEN tbl
  ELSE IF found # << >>
  THEN [tbl EXCEPT ![system_user][name][1].usage_count = found[1].usage_count + 1,
                   ![system_user][name][1].last_used_at = TimeNow(tbl)]
  ELSE InsertPreference(tbl, system_user, name,
                        PreferenceRow(FALSE, 1, TimeNow(tbl))).tbl

\* the enabled_count of toggle_template_preference and the
\* current_enabled_count of bulk_toggle_template_preferences
EnabledCount(tbl, user) ==
  Cardinality(EnabledPlannerTemplates(PreferenceOf(tbl, user)))

\* toggle_template_preference: the handler of POST
\* /templates/user/{user_id}/template/{template_id}/toggle
ToggleTemplatePreference(tbl, user, t, is_enabled, db_ok) ==
  IF ~is_enabled /\ EnabledCount(tbl, user) <= 1
  THEN [status |-> 400, tbl |-> tbl]
  ELSE LET r == ToggleUserTemplatePreference(tbl, user, t, is_enabled,
                                             FirstPreference(tbl, user, t), db_ok)
       IN  [status |-> IF r.ok THEN 200 ELSE 400, tbl |-> r.tbl]

\* an entry of the "preferences" list of a bulk-toggle request; is_enabled
\* is "true", "false" or "absent"
BulkEntry(t, is_enabled) == [template_id |-> t, is_enabled |-> is_enabled]

\* sum(1 for pref in template_preferences if pref.get("is_enabled", False))
EnablingCount(entries) ==
  Cardinality({i \in 1..Len(entries) : entries[i].is_enabled = "true"})

\* sum(1 for pref in template_preferences if not pref.get("is_enabled", False))
DisablingCount(entries) ==
  Cardinality({i \in 1..Len(entries) : entries[i].is_enabled # "true"})

\* current_enabled_count + enabling_count - disabling_count  (525-529)
ProjectedEnabledCount(tbl, user, entries) ==
  EnabledCount(tbl, user) + EnablingCount(entries) - DisablingCount(entries)

RECURSIVE ApplyBulk(_, _, _, _, _)
\* the for loop of lines 539-566
ApplyBulk(tbl, user, entries, projected, db_ok) ==
  IF entries = << >> THEN tbl
  ELSE LET pref == Head(entries)
           \* pref.get("is_enabled", True)
           is_enabled == pref.is_enabled # "false"
           after ==
             IF is_enabled /\ projected > PlannerTemplateCap THEN tbl
             ELSE ToggleUserTemplatePreference(
                    tbl, user, pref.template_id, is_enabled,
                    FirstPreference(tbl, user, pref.template_id), db_ok).tbl
       IN  ApplyBulk(after, user, Tail(entries), projected, db_ok)

\* bulk_toggle_template_preferences: the handler of POST
\* /templates/user/{user_id}/bulk-toggle
BulkToggleTemplatePreferences(tbl, user, entries, db_ok) ==
  IF entries = << >> THEN [status |-> 400, tbl |-> tbl]
  ELSE LET projected == ProjectedEnabledCount(tbl, user, entries)
       IN  IF projected < 1 THEN [status |-> 400, tbl |-> tbl]
           ELSE [status |-> 200,
                 tbl |-> ApplyBulk(tbl, user, entries, projected, db_ok)]

\* ------------------------------------------------------------- the planner
NO_AGENTS_AVAILABLE == "no_agents_available"

\* str(self.agent_desc) of an AI system that holds only basic_qa_agent, and
\* of one that holds other agents too
DESC_BASIC_ONLY == "[{'basic_qa_agent': 'Answers queries unrelated to data'}]"
DESC_WITH_AGENTS == "[{'custom_agent': 'Template: custom'}, {'basic_qa_agent': 'Answers queries unrelated to data'}]"

\* str(self.agent_desc)
AgentDescOf(loaded) ==
  IF loaded \subseteq {BasicQA} THEN DESC_BASIC_ONLY ELSE DESC_WITH_AGENTS

\* values of the Agent_desc argument
AgentDescs ==
  {"", "[]", "   [{}]     ", "[{'a':1}]", DESC_BASIC_ONLY, DESC_WITH_AGENTS}

\* str(Agent_desc).strip()
StripDesc(desc) == IF desc = "   [{}]     " THEN "[{}]" ELSE desc

\* len(str(Agent_desc).strip()) < 10
MinDescLength == 10

\* NoAgentsForPlanning without any of its tests
NoAgentsForPlanningNever(desc) == FALSE

\* not Agent_desc or Agent_desc == "[]" or len(str(Agent_desc).strip()) < 10
NoAgentsForPlanning(desc) ==
  \/ desc = ""
  \/ desc = "[]"
  \/ Len(StripDesc(desc)) < MinDescLength

\* keys of self.planners
PlannerNames == {"advanced", "intermediate", "basic"}

\* answers of the complexity classifier
ClassifierAnswers ==
  {"basic", "intermediate", "advanced", "unrelated", " unrelated ", "expert"}

\* complexity.exact_word_complexity.strip()
StripWord(w) == IF w = " unrelated " THEN "unrelated" ELSE w

\* an instruction payload: its form (a dict, a string holding JSON, a string
\* that is not JSON, or nothing) and the keys written in it
Payload(form, keys) == [form |-> form, keys |-> keys]

NoPayload == Payload("none", {})

\* plan texts and instruction payloads a sub-planner answers with
PlannerPlans ==
  { <<"planner_data_viz_agent">>,
    <<"custom_agent">>,
    <<"Plan: Custom_Agent ", "planner_data_viz_agent">>,
    <<NO_AGENTS_AVAILABLE>> }

PlannerPayloads ==
  { Payload("json", {"custom_agent", "planner_data_viz_agent"}),
    Payload("json", {"Custom_Agent"}),
    Payload("text", {"custom_agent"}),
    Payload("json", {}) }

\* what a sub-planner call ends in: an answer or an exception
PlannerOutcomes ==
  {[raised |-> FALSE, plan |-> p, plan_instructions |-> i] :
     p \in PlannerPlans, i \in PlannerPayloads}
  \cup {[raised |-> TRUE, plan |-> << >>, plan_instructions |-> NoPayload]}

\* 'no_agents_available' in str(plan.plan)
PlanMentionsNoAgents(plan) ==
  \E i \in 1..Len(plan) : plan[i] = NO_AGENTS_AVAILABLE

\* the value forward returns: complexity, plan (a string for the fixed
\* answers, the sub-planner's fields otherwise) and plan_instructions
ModuleReturn(word, plan_is_str, plan, payload) ==
  [complexity |-> word, plan_is_str |-> plan_is_str, plan |-> plan,
   plan_instructions |-> payload]

NoReturn == ModuleReturn("", TRUE, << >>, NoPayload)

\* agents.py:648-652, 673-677, 694-698
NoAgentsReturn ==
  ModuleReturn(NO_AGENTS_AVAILABLE, TRUE, <<NO_AGENTS_AVAILABLE>>,
               Payload("dict", {"message"}))

\* UnrelatedReturn for a planner that routes unrelated queries to an agent
UnrelatedReturnToViz(word) ==
  ModuleReturn(word, TRUE, <<"planner_data_viz_agent">>, Payload("text", {BasicQA}))

\* agents.py:657-662  plan_instructions is a Python literal, not JSON
UnrelatedReturn(word) ==
  ModuleReturn(word, TRUE, <<BasicQA>>, Payload("text", {BasicQA}))

\* agents.py:705-712
PlanningErrorReturn ==
  ModuleReturn("error", TRUE, <<BasicQA>>, Payload("dict", {"error"}))

\* agents.py:679-682, 700-703
PlanReturn(word, answer) ==
  ModuleReturn(word, FALSE, answer.plan, answer.plan_instructions)

\* FallbackPlanner for a router that falls back to the basic planner
FallbackPlannerBasic == "basic"

\* agents.py:688  the planner used when the chosen one fails
FallbackPlanner == "intermediate"

\* ------------------------------------------------ plans and instructions
\* agents.py:651
NO_AGENTS_MESSAGE == "No agents are currently enabled for analysis."

\* format_response_to_markdown({"analytical_planner": plan_response}): the
\* texts it can give for a plan with the given instruction payload
PlanDescriptions(payload) ==
  IF "message" \in payload.keys
  THEN {NO_AGENTS_MESSAGE, "", RESPONSE_ERROR_INVALID_QUERY}
  ELSE {"content", "", RESPONSE_ERROR_INVALID_QUERY}

\* execute_plan, lines 1958-1968: the keys of the parsed plan_instructions
ParsedInstructions(payload) ==
  IF payload.form \in {"dict", "json"} THEN payload.keys ELSE {}

\* json.dumps(plan_instructions[key])
JsonDumps(key) ==
  CASE key = "custom_agent" -> "{\"create\": [\"c\"], \"use\": [\"df\"], \"instruction\": \"custom\"}"
    [] key = "Custom_Agent" -> "{\"create\": [\"C\"], \"use\": [\"df\"], \"instruction\": \"Custom\"}"
    [] key = "planner_data_viz_agent" -> "{\"create\": [\"fig\"], \"use\": [\"c\"], \"instruction\": \"plot\"}"
    [] key = "data_viz_agent" -> "{\"create\": [\"fig\"], \"use\": [\"df\"], \"instruction\": \"viz\"}"
    [] OTHER -> "{}"

\* execute_plan, lines 1987-1990: inputs['plan_instructions'] of a step
PlanInstructionsInput(payload, agent_name) ==
  IF agent_name \in ParsedInstructions(payload)
  THEN JsonDumps(agent_name)
  ELSE ""

\* ------------------------------------------------------------------- state
VARIABLES
  planText,       \* plan_response["plan"], as its "->"-separated segments
  agents,         \* auto_analyst.agents (names)
  user_id,        \* session_state["user_id"], 0 for None
  pc,             \* position of _generate_streaming_responses
  stop,           \* why the stream ended
  idx,            \* position of the for loop of execute_plan in plan_list
  events,         \* events yielded by _execute_plan_with_timeout
  invoked,        \* agents called, in call order
  frames,         \* frames yielded to the HTTP layer
  usage_records,  \* the usage_records list of the request
  usage_count     \* user_template_preferences.usage_count of user_id

planVars ==
  <<planText, agents, user_id, pc, stop, idx, events, invoked, frames,
    usage_records, usage_count>>

VARIABLES
  has_df,          \* session_state["current_df"] is not None
  sess_report_id,  \* session_state["current_deep_analysis_id"], 0 for None
  reports,         \* deep_analysis_reports rows by report_id (NoRow: absent)
  runs,            \* the deep-analysis requests and their stream generators
  now              \* datetime.now(UTC)

deepVars == <<has_df, sess_report_id, reports, runs, now>>

VARIABLES
  Agent_desc,     \* the Agent_desc argument of planner_module.forward
  ppc,            \* position of planner_module.forward
  complexity,     \* complexity.exact_word_complexity.strip(), "" before it
  lm_calls,       \* language-model calls the planner made, in order
  module_return   \* what planner_module.forward returned

plannerVars == <<Agent_desc, ppc, complexity, lm_calls, module_return>>

VARIABLES
  plan_instructions,  \* plan_response["plan_instructions"] as the planner wrote it
  ai_user,            \* session_state["ai_system"].user_id, 0 for None
  prefs,              \* user_template_preferences.is_enabled by user and template
  http_response,      \* the HTTP response of the latest request handler
  served              \* requests the handlers have taken so far

chatVars == <<plan_instructions, ai_user, prefs, http_response, served>>

VARIABLES
  deep_analyzer,          \* session_state["deep_analyzer"]
  deep_analyzer_user_id,  \* session_state["deep_analyzer_user_id"], 0 for None
  returned,               \* the latest return of get_deep_analyzer
  calls_since_change,     \* get_deep_analyzer returns since the bound user last
                          \* changed or the cache was last cleared
  built_users             \* users an analyzer has been constructed for

analyzerVars ==
  <<deep_analyzer, deep_analyzer_user_id, returned, calls_since_change, built_users>>

VARIABLES
  preferences,  \* the user_template_preferences table, by user and template
  pending,      \* preference writes that have read the table and not yet
                \* committed
  view,         \* the answer of the latest read of the registry
  registry_requests,  \* requests the template registry has taken so far
  model_usage   \* rows of the model_usage table

registryVars == <<preferences, pending, view, registry_requests, model_usage>>

VARIABLES
  agent_list,   \* the names of specified_agent, split at the commas
  ipc,          \* position of auto_analyst_ind.forward
  results,      \* the mapping forward returns, as (key, kind) entries
  called,       \* the agents forward has called and how each call ended
  agent_idx     \* position of the for loop of execute_multiple_agents

indVars == <<agent_list, ipc, results, called, agent_idx>>

\* the query parameters of a chat request and what the session keeps of them
VARIABLES
  query_params,  \* request_obj.query_params: the chat_id and user_id strings
  chat_id,       \* session_state["chat_id"], 0 for None
  qpc            \* position of _update_session_from_query_params

queryVars == <<query_params, chat_id, qpc>>

\* one call of calculate_cost
VARIABLES
  model_name,     \* the model_name argument
  input_tokens,   \* the input_tokens argument
  output_tokens,  \* the output_tokens argument
  cost,           \* the value returned, in units of 10^-9 dollars
  cpc             \* position of the call

costVars == <<model_name, input_tokens, output_tokens, cost, cpc>>

\* the parts of the service that are followed on their own
serviceVars == <<indVars, queryVars, costVars>>

\* the parts of the service the individual request / the query parameters
\* / the cost computation leave alone
outsideInd == <<queryVars, costVars>>

outsideQuery == <<indVars, costVars>>

outsideCost == <<indVars, queryVars>>

\* everything but the planned request / but the deep-analysis part
outsidePlan == <<deepVars, plannerVars, chatVars, analyzerVars, registryVars, serviceVars>>

outsideDeep == <<planVars, plannerVars, chatVars, analyzerVars, registryVars, serviceVars>>

vars == <<planVars, deepVars, plannerVars, chatVars, analyzerVars, registryVars, serviceVars>>

\* ---------------------------------------------------- deep analysis: state
Runs == 1..MaxRuns

\* no row stored under this report_id
NoRow ==
  [status |-> "absent", progress_percentage |-> 0, start_time |-> 0,
   end_time |-> -1, duration_seconds |-> -1, error_message |-> "",
   html_report |-> FALSE, outputs |-> {}, run |-> 0]

\* a run before its request arrives
IdleRun ==
  [pc |-> "idle", report_id |-> 0, own |-> 0, stage |-> 1,
   final_result |-> FALSE, html_report |-> FALSE, frames |-> << >>]

\* the deep-analysis part at rest, with a dataset bound or not
DeepIdle ==
  /\ has_df \in BOOLEAN
  /\ sess_report_id = 0
  /\ reports = [i \in Runs |-> NoRow]
  /\ runs = [r \in Runs |-> IdleRun]
  /\ now = 0

RECURSIVE SeqsUpTo(_, _)
SeqsUpTo(S, n) ==
  IF n = 0 THEN {<< >>}
  ELSE LET shorter == SeqsUpTo(S, n - 1)
       IN  shorter \cup {Append(s, x) : s \in {t \in shorter : Len(t) = n - 1}, x \in S}

\* the planner before it is called
PlannerIdle ==
  /\ Agent_desc = ""
  /\ ppc = "idle"
  /\ complexity = ""
  /\ lm_calls = << >>
  /\ module_return = NoReturn

\* no request handler has answered yet
NoResponse == [op |-> "none", status |-> 0, detail |-> ""]

\* no deep analyzer in the session
NoAnalyzer == [built_for |-> 0, agents |-> {}]

\* get_deep_analyzer has not returned yet
NothingReturned ==
  [called |-> FALSE, raised |-> FALSE, user |-> 0, built_for |-> 0,
   agents |-> {}, analyzer_user_id |-> 0, constructed |-> FALSE,
   queried |-> FALSE, failed |-> FALSE]

\* the session's analyzer cache before its first use
AnalyzerIdle ==
  /\ deep_analyzer = NoAnalyzer
  /\ deep_analyzer_user_id = 0
  /\ returned = NothingReturned
  /\ calls_since_change = 0
  /\ built_users = {}

\* no registry read has been answered yet
NoView ==
  [op |-> "none", user |-> 0, status |-> 0, names |-> {}, ranked |-> << >>]

\* the preference store before any row is written, and nothing in progress
\* auto_analyst_ind.forward before it is called
IndIdle ==
  /\ agent_list = << >>
  /\ ipc = "idle"
  /\ results = {}
  /\ called = << >>
  /\ agent_idx = 1

QueryIdle ==
  /\ query_params = [chat_id |-> "absent", user_id |-> "absent"]
  /\ chat_id = 0
  /\ qpc = "idle"

CostIdle ==
  /\ model_name = ""
  /\ input_tokens = 0
  /\ output_tokens = 0
  /\ cost = 0
  /\ cpc = "idle"

ServiceIdle == IndIdle /\ QueryIdle /\ CostIdle

RegistryIdle ==
  /\ preferences = [u \in Users |-> [t \in TemplateNames |-> << >>]]
  /\ pending = << >>
  /\ view = NoView
  /\ registry_requests = 0
  /\ model_usage = 0

\* the instruction payload of the plans that are given as text
GivenPayload == Payload("json", {"custom_agent", "data_viz_agent"})

\* the preference rows of the user a request is for
PrefsOf(user) == IF user \in Users THEN prefs[user] ELSE NoPreferences

\* a session that has served no planned request, with the given plan, agents
\* and user
NothingServed(text, loaded, user) ==
  /\ planText = text
  /\ agents = loaded
  /\ user_id = user
  /\ stop = "none"
  /\ idx = 1
  /\ events = << >>
  /\ invoked = << >>
  /\ frames = << >>
  /\ usage_records = << >>
  /\ usage_count = [t \in TemplateNames |-> 0]

\* a planned request about to start, for the given plan, agents and user
PlanStart(text, loaded, user) ==
  /\ NothingServed(text, loaded, user)
  /\ pc = "get_plan"

PlanInit ==
  /\ \E text \in SeqsUpTo(Segments, MaxSteps),
        L \in SUBSET Loadable, user \in {0, 1} :
       PlanStart(text, L \cup {BasicQA}, user)
  /\ DeepIdle
  /\ has_df = TRUE
  /\ PlannerIdle
  /\ plan_instructions = GivenPayload
  /\ ai_user = user_id
  /\ prefs = [u \in Users |-> NoPreferences]
  /\ http_response = NoResponse
  /\ served = 0
  /\ AnalyzerIdle
  /\ RegistryIdle
  /\ ServiceIdle

Frame(agent, content, status) ==
  [agent |-> agent, content |-> content, status |-> status]

Event(agent, inputs, response) ==
  [agent |-> agent, inputs |-> inputs, response |-> response]

\* usage_records.append(_create_usage_record(...)) when a user is bound
RecordUsage(recs, kind) ==
  IF user_id # 0 THEN Append(recs, kind) ELSE recs

\* PlannerFrames for a stream that goes straight to the step frames
PlannerFramesMissing(description) == << >>

\* the frame yielded for a plan whose description is acceptable (918-922)
PlannerFrames(description) ==
  << Frame("Analytical Planner", description,
           IF description # "" THEN "success" ELSE "error") >>

\* _generate_streaming_responses up to the planner frame
GetPlan ==
  /\ pc = "get_plan"
  /\ \E outcome \in {"raise", "timeout"} \cup PlanDescriptions(plan_instructions) :
       CASE outcome = "raise" ->
              /\ frames' = Append(frames, Frame("planner", GENERIC_MESSAGE, "error"))
              /\ pc' = "done" /\ stop' = "planner_error"
              /\ UNCHANGED usage_records
         [] outcome = "timeout" ->
              /\ frames' = Append(frames, Frame("planner", TIMEOUT_MESSAGE, "error"))
              /\ pc' = "done" /\ stop' = "timeout"
              /\ UNCHANGED usage_records
         [] outcome = RESPONSE_ERROR_INVALID_QUERY ->
              /\ frames' = Append(frames, Frame("Analytical Planner", outcome, "error"))
              /\ pc' = "done" /\ stop' = "invalid_plan"
              /\ UNCHANGED usage_records
         [] OTHER ->
              /\ frames' = frames \o PlannerFrames(outcome)
              /\ usage_records' = RecordUsage(usage_records, "planner")
              /\ pc' = "exec_start" /\ stop' = "none"
  /\ UNCHANGED <<planText, agents, user_id, idx, events, invoked, usage_count>>
  /\ UNCHANGED outsidePlan

\* auto_analyst._track_agent_usage: the counters after tracking one call
TrackAgentUsage(name, db_ok) ==
  IF \/ name \in UntrackedAgents
     \/ ai_user = 0
     \/ name \notin TemplateNames
     \/ ~db_ok
  THEN usage_count
  ELSE [usage_count EXCEPT ![name] = @ + 1]

\* auto_analyst.execute_agent: the response kind returned for an agent call
ExecuteAgentResponse(outcome) ==
  IF outcome \in {"raise", "timeout"} THEN "error" ELSE outcome

\* UnavailableEvents for a loop that skips an unloaded step silently
UnavailableEventsSkipped(name) == << >>

\* execute_plan, line 1979: the events yielded for a step that is not loaded
UnavailableEvents(name) == << Event(name, "{}", "error") >>

\* the body of the async-for loop of _generate_streaming_responses for one
\* event: the frames it yields, the usage records, and whether it returns
ConsumeEvent(ev) ==
  LET formatted == FormatResponse(ev.response)
  IN  IF ev.agent = "plan_not_found"
      THEN [frames |-> << Frame("Analytical Planner", NO_PLAN_FOUND, "error") >>,
            recs |-> usage_records, returned |-> "plan_not_found"]
      ELSE IF formatted = RESPONSE_ERROR_INVALID_QUERY
      THEN [frames |-> << Frame(ev.agent, formatted, "error") >>,
            recs |-> usage_records, returned |-> "invalid_step"]
      ELSE [frames |-> << Frame(FrameAgent(ev.agent),
                               IF formatted = "" THEN NO_RESPONSE ELSE formatted,
                               IF Truthy(ev.response) THEN "success" ELSE "error") >>,
            recs |-> RecordUsage(usage_records, "agent"),
            returned |-> "none"]

\* deliver the events of one generator step to the consumer, in order
Deliver(evs, whenDrained) ==
  LET c == ConsumeEvent(evs[1])
  IN  /\ events' = events \o evs
      /\ frames' = frames \o c.frames
      /\ usage_records' = c.recs
      /\ IF c.returned # "none"
         THEN pc' = "done" /\ stop' = c.returned
         ELSE pc' = whenDrained.pc /\ stop' = whenDrained.stop

\* execute_plan from its first line to the start of the for loop, run under
\* _execute_plan_with_timeout
ExecStart ==
  /\ pc = "exec_start"
  /\ \E ctx_ok \in BOOLEAN, outcome \in {"result", "empty", "unrenderable", "raise"} :
       LET plan_list == SplitPlan(planText)
       IN  CASE ~ctx_ok ->
                  \* retrieve() raised: the wrapper yields the error event
                  /\ Deliver(<< Event("error", "None", "error") >>,
                             [pc |-> "done", stop |-> "exec_error"])
                  /\ UNCHANGED <<invoked, idx>>
             [] ctx_ok /\ ContainsBasicQA(planText) ->
                  /\ invoked' = Append(invoked, BasicQA)
                  /\ Deliver(<< Event(BasicQA, "goal", ExecuteAgentResponse(outcome)) >>,
                             [pc |-> "done", stop |-> "qa_only"])
                  /\ UNCHANGED idx
             [] ctx_ok /\ ~ContainsBasicQA(planText)
                       /\ NoValidAgents(plan_list, agents) ->
                  /\ Deliver(<< Event("plan_not_found", "None", "error") >>,
                             [pc |-> "done", stop |-> "plan_not_found"])
                  /\ UNCHANGED <<invoked, idx>>
             [] OTHER ->
                  /\ pc' = "loop" /\ idx' = 1
                  /\ UNCHANGED <<stop, events, frames, usage_records, invoked>>
  /\ UNCHANGED <<planText, agents, user_id, usage_count>>
  /\ UNCHANGED outsidePlan

\* NextIteration for a loop that stops at the first step error
NextIterationStopOnError(response, i, n) ==
  IF i = n \/ response = "error"
  THEN [pc |-> "done", stop |-> "exhausted"]
  ELSE [pc |-> "loop", stop |-> "none"]

\* where execute_plan goes after the event of step i of n: the for loop
\* goes on to the next step whatever the response was
NextIteration(response, i, n) ==
  IF i = n
  THEN [pc |-> "done", stop |-> "exhausted"]
  ELSE [pc |-> "loop", stop |-> "none"]

\* the call of a loaded agent in step idx of n, with the consumer's handling
\* of the event: a call that raises (a TimeoutError of the model call
\* included) is answered by execute_agent's except with an error response
StepCall(name, n, outcome, db_ok) ==
  /\ invoked' = Append(invoked, name)
  /\ usage_count' = IF outcome \in {"raise", "timeout"} THEN usage_count
                    ELSE TrackAgentUsage(name, db_ok)
  /\ Deliver(<< Event(name, PlanInstructionsInput(plan_instructions, name),
                       ExecuteAgentResponse(outcome)) >>,
             NextIteration(ExecuteAgentResponse(outcome), idx, n))

\* one iteration of the for loop of execute_plan, with the consumer's
\* handling of the event it yields
Step ==
  /\ pc = "loop"
  /\ LET plan_list == SplitPlan(planText)
         name == plan_list[idx]
         n == Len(plan_list)
     IN  /\ idx' = idx + 1
         /\ IF name \notin agents
            THEN /\ IF UnavailableEvents(name) = << >>
                    THEN /\ pc' = NextIteration("error", idx, n).pc
                         /\ stop' = NextIteration("error", idx, n).stop
                         /\ UNCHANGED <<events, frames, usage_records>>
                    ELSE Deliver(UnavailableEvents(name), NextIteration("error", idx, n))
                 /\ UNCHANGED <<invoked, usage_count>>
            ELSE \E outcome \in {"result", "empty", "unrenderable", "raise",
                                  "timeout"},
                    db_ok \in BOOLEAN : StepCall(name, n, outcome, db_ok)
  /\ UNCHANGED <<planText, agents, user_id>>
  /\ UNCHANGED outsidePlan

\* --------------------------------------------------- the planner: actions
\* one language-model call: the predictor called and what came back
Call(callee, raised, plan, payload) ==
  [callee |-> callee, raised |-> raised, plan |-> plan,
   plan_instructions |-> payload]

\* forward returns
Returns(value) ==
  /\ module_return' = value
  /\ ppc' = "returned"

\* planner_module.forward from its first line to the choice of a sub-planner:
\* the guard on Agent_desc, the classifier call, the unrelated answer
Classify ==
  /\ ppc = "entry"
  /\ IF NoAgentsForPlanning(Agent_desc)
     THEN /\ Returns(NoAgentsReturn)
          /\ UNCHANGED <<complexity, lm_calls>>
     ELSE \E answer \in ClassifierAnswers \cup {"raise"} :
               IF answer = "raise"
               THEN /\ lm_calls' = Append(lm_calls,
                                          Call("allocator", TRUE, << >>, NoPayload))
                    /\ Returns(PlanningErrorReturn)
                    /\ UNCHANGED complexity
               ELSE /\ lm_calls' = Append(lm_calls,
                                          Call("allocator", FALSE, <<answer>>, NoPayload))
                    /\ complexity' = StripWord(answer)
                    /\ IF StripWord(answer) = "unrelated"
                       THEN Returns(UnrelatedReturn(StripWord(answer)))
                       ELSE /\ ppc' = "dispatch"
                            /\ UNCHANGED module_return
  /\ UNCHANGED Agent_desc
  /\ UNCHANGED <<planVars, deepVars, registryVars, serviceVars, chatVars, analyzerVars>>

\* the call of self.planners[complexity] (665-685): a complexity that is no
\* key of self.planners raises KeyError before any call is made
Dispatch ==
  /\ ppc = "dispatch"
  /\ IF complexity \notin PlannerNames
     THEN /\ ppc' = "fallback"
          /\ UNCHANGED <<lm_calls, module_return>>
     ELSE \E answer \in PlannerOutcomes :
            /\ lm_calls' = Append(lm_calls,
                                  Call(complexity, answer.raised, answer.plan,
                                       answer.plan_instructions))
            /\ IF answer.raised
               THEN /\ ppc' = "fallback"
                    /\ UNCHANGED module_return
               ELSE IF PlanMentionsNoAgents(answer.plan)
               THEN Returns(NoAgentsReturn)
               ELSE Returns(PlanReturn(complexity, answer))
  /\ UNCHANGED <<Agent_desc, complexity>>
  /\ UNCHANGED <<planVars, deepVars, registryVars, serviceVars, chatVars, analyzerVars>>

\* the except branch of the sub-planner call (685-703) and the outer except
\* branch that catches what the fallback raises (705-712)
Fallback ==
  /\ ppc = "fallback"
  /\ \E answer \in PlannerOutcomes :
       /\ lm_calls' = Append(lm_calls,
                             Call(FallbackPlanner, answer.raised, answer.plan,
                                  answer.plan_instructions))
       /\ IF answer.raised
          THEN Returns(PlanningErrorReturn)
          ELSE IF PlanMentionsNoAgents(answer.plan)
          THEN Returns(NoAgentsReturn)
          ELSE Returns(PlanReturn(FallbackPlanner, answer))
  /\ UNCHANGED <<Agent_desc, complexity>>
  /\ UNCHANGED <<planVars, deepVars, registryVars, serviceVars, chatVars, analyzerVars>>

\* the planner called on its own, with any Agent_desc
PlannerInit ==
  /\ PlanStart(<< >>, {BasicQA}, 1)
  /\ DeepIdle
  /\ has_df = TRUE
  /\ Agent_desc \in AgentDescs
  /\ ppc = "entry"
  /\ complexity = ""
  /\ lm_calls = << >>
  /\ module_return = NoReturn
  /\ plan_instructions = NoPayload
  /\ ai_user = user_id
  /\ prefs = [u \in Users |-> NoPreferences]
  /\ http_response = NoResponse
  /\ served = 0
  /\ AnalyzerIdle
  /\ RegistryIdle
  /\ ServiceIdle

PlannerNext == Classify \/ Dispatch \/ Fallback

PlannerSpec == PlannerInit /\ [][PlannerNext]_vars

\* ------------------------------------------------------ request handlers
\* app.py:455
RESPONSE_ERROR_NO_DATASET == "No dataset is currently loaded. Please link a dataset before proceeding with your analysis."
\* app.py:683
INVALID_USER_ID == "Invalid user_id in query params. Please provide a valid integer."

\* the user_id query parameter of a request: not given, or its text
UserParams == {"absent", "1", "2", "x"}

\* int(request_obj.query_params["user_id"]); -1 stands for ValueError
ParseInt(p) ==
  CASE p = "1" -> 1
    [] p = "2" -> 2
    [] OTHER -> -1

\* _update_session_from_query_params: whether it raises the 400 and the
\* session_state["user_id"] it leaves
UpdateSessionFromQueryParams(p) ==
  IF p = "absent" THEN [raised |-> FALSE, user_id |-> user_id]
  ELSE IF ParseInt(p) = -1 THEN [raised |-> TRUE, user_id |-> user_id]
  ELSE [raised |-> FALSE, user_id |-> ParseInt(p)]

\* NoDataset for handlers that do not look at the dataset
NoDatasetIgnored == FALSE

\* session_state["current_df"] is None
NoDataset == ~has_df

\* the HTTP response of a handler: 200 for a returned value or stream
Respond(op, status, detail) == [op |-> op, status |-> status, detail |-> detail]

\* the part every chat handler starts with: the query parameters, then the
\* dataset test.  The response it raises, NoResponse when it raises none
Admission(op, p) ==
  IF UpdateSessionFromQueryParams(p).raised THEN Respond(op, 400, INVALID_USER_ID)
  ELSE IF NoDataset THEN Respond(op, 400, RESPONSE_ERROR_NO_DATASET)
  ELSE NoResponse

\* what every handler does to the session: the user_id query parameter is
\* stored when it is an integer
BindUser(p) ==
  /\ user_id' = UpdateSessionFromQueryParams(p).user_id
  /\ served' = served + 1

\* a handler that stores the user_id parameter p: the count of analyzer
\* returns starts again when the bound user changes
Rebind(p) ==
  calls_since_change' =
    IF UpdateSessionFromQueryParams(p).user_id # user_id THEN 0
    ELSE calls_since_change

\* chat_with_all: the handler of POST /chat.  session_state["ai_system"] is
\* the one the session was created with; the handler does not rebuild it.
ChatWithAll(p) ==
  /\ pc = "idle"
  /\ served < MaxRequests
  /\ BindUser(p)
  /\ IF Admission("chat", p) # NoResponse
     THEN /\ http_response' = Admission("chat", p)
          /\ UNCHANGED pc
     ELSE /\ http_response' = Respond("chat", 200, "")
          /\ pc' = "stream_start"
  /\ Rebind(p)
  /\ UNCHANGED <<planText, agents, stop, idx, events, invoked, frames,
                 usage_records, usage_count>>
  /\ UNCHANGED <<plan_instructions, ai_user, prefs>>
  /\ UNCHANGED <<deep_analyzer, deep_analyzer_user_id, returned, built_users>>
  /\ UNCHANGED <<deepVars, plannerVars, registryVars, serviceVars>>

\* _generate_streaming_responses from its first line into get_plan, up to
\* the call of self.planner (agents.py:1879-1890)
RequestPlan ==
  /\ pc = "stream_start"
  /\ \E ctx_ok \in BOOLEAN :
       IF ctx_ok
       THEN /\ Agent_desc' = AgentDescOf(agents)
            /\ ppc' = "entry"
            /\ pc' = "planner"
            /\ UNCHANGED <<frames, stop>>
       ELSE /\ frames' = Append(frames, Frame("planner", GENERIC_MESSAGE, "error"))
            /\ pc' = "done" /\ stop' = "planner_error"
            /\ UNCHANGED <<Agent_desc, ppc>>
  /\ UNCHANGED <<planText, agents, user_id, idx, events, invoked,
                 usage_records, usage_count>>
  /\ UNCHANGED <<complexity, lm_calls, module_return>>
  /\ UNCHANGED <<deepVars, registryVars, serviceVars, chatVars, analyzerVars>>

\* get_plan after self.planner returned (agents.py:1896-1926): the plan
\* text and the instruction payload of plan_dict
PlanReturned ==
  /\ pc = "planner"
  /\ ppc = "returned"
  /\ planText' = module_return.plan
  /\ plan_instructions' = module_return.plan_instructions
  /\ pc' = "get_plan"
  /\ ppc' = "idle"
  /\ UNCHANGED <<agents, user_id, stop, idx, events, invoked, frames,
                 usage_records, usage_count>>
  /\ UNCHANGED <<Agent_desc, complexity, lm_calls, module_return>>
  /\ UNCHANGED <<ai_user, prefs, http_response, served>>
  /\ UNCHANGED <<deepVars, registryVars, serviceVars, analyzerVars>>

\* a session created for a user (or for none), with the AI system the
\* session manager built for that user, before its first request
ChatInit ==
  /\ \E user \in {0, 1}, rows \in PreferenceProfiles :
       /\ prefs = [u \in Users |-> IF u = 1 THEN rows ELSE NoPreferences]
       /\ NothingServed(<< >>, AgentsBuiltFor(user, PrefsOf(user)), user)
  /\ pc = "idle"
  /\ DeepIdle
  /\ PlannerIdle
  /\ plan_instructions = NoPayload
  /\ ai_user = user_id
  /\ http_response = NoResponse
  /\ served = 0
  /\ AnalyzerIdle
  /\ RegistryIdle
  /\ ServiceIdle

ChatNext ==
  \/ \E p \in UserParams : ChatWithAll(p)
  \/ RequestPlan
  \/ Classify \/ Dispatch \/ Fallback
  \/ PlanReturned
  \/ GetPlan \/ ExecStart \/ Step

ChatSpec == ChatInit /\ [][ChatNext]_vars

\* ------------------------------------------------------ the deep analyzer
\* hasattr(session_state, 'deep_analyzer'): the session state is a dict,
\* its entries are no attributes
HasAttrDeepAnalyzer == FALSE

\* NeedsRebuild for a cache that is kept whoever the session's user is
NeedsRebuildCacheOnly(analyzer, analyzer_user, user) == analyzer = NoAnalyzer

\* app.py:325-327  the test that sends get_deep_analyzer to construct
NeedsRebuild(analyzer, analyzer_user, user) ==
  \/ analyzer = NoAnalyzer
  \/ analyzer_user # user
  \/ ~HasAttrDeepAnalyzer

\* DeepAgents without the fallback to the core agents
DeepAgentsNoFallback(user, loaded) == loaded

\* app.py:337-385  the keys of deep_agents for what the registry returned
DeepAgents(user, loaded) ==
  IF user = 0 \/ loaded = {} THEN CoreAgentNames ELSE loaded

\* how a construction can go: the registry answers, its query fails, or
\* session_factory() or the deep_analysis_module constructor raises
AnalyzerOutcomes == {"ok", "query_failed", "raised"}

\* what get_deep_analyzer hands back for an analyzer of the cache
Hands(analyzer, analyzer_user, constructed, failed) ==
  [called |-> TRUE, raised |-> FALSE, user |-> user_id,
   built_for |-> analyzer.built_for, agents |-> analyzer.agents,
   analyzer_user_id |-> analyzer_user, constructed |-> constructed,
   queried |-> constructed /\ user_id # 0, failed |-> failed]

\* AppState.get_deep_analyzer(session_id)
GetDeepAnalyzer(outcome) ==
  IF ~NeedsRebuild(deep_analyzer, deep_analyzer_user_id, user_id)
  THEN /\ returned' = Hands(deep_analyzer, deep_analyzer_user_id, FALSE, FALSE)
       /\ calls_since_change' = calls_since_change + 1
       /\ UNCHANGED <<deep_analyzer, deep_analyzer_user_id, built_users>>
  ELSE IF outcome = "raised"
  THEN /\ returned' = [NothingReturned EXCEPT !.called = TRUE, !.raised = TRUE,
                                              !.user = user_id]
       /\ UNCHANGED <<deep_analyzer, deep_analyzer_user_id, calls_since_change,
                      built_users>>
  ELSE \E loaded \in LoadPlannerTemplates(user_id, PrefsOf(user_id), outcome = "ok") :
         LET built == [built_for |-> user_id, agents |-> DeepAgents(user_id, loaded)]
         IN  /\ deep_analyzer' = built
             /\ deep_analyzer_user_id' = user_id
             /\ returned' = Hands(built, user_id, TRUE, outcome # "ok")
             /\ calls_since_change' = calls_since_change + 1
             /\ built_users' = built_users \cup {user_id}

\* whether the call of get_deep_analyzer with this outcome raises
AnalyzerRaises(outcome) ==
  /\ NeedsRebuild(deep_analyzer, deep_analyzer_user_id, user_id)
  /\ outcome = "raised"

\* agent names asked of POST /chat/{agent_name}
AgentRequests == {"data_viz_agent", "unknown_agent", "planner_data_viz_agent"}

\* _is_agent_available: a core agent, an active template, or an agent of
\* the session's AI system
IsAgentAvailable(name) ==
  \/ name \in CoreAgentNames
  \/ name \in DOMAIN AgentTemplates /\ AgentTemplates[name].is_active
  \/ name \in agents

\* app.py:699-710
AGENT_NOT_FOUND == "Agent not found. Available agents: [...]"
\* app.py:612
REQUEST_TIMED_OUT == "Request timed out. Please try a simpler query."
\* app.py:619
UNEXPECTED_ERROR == "An unexpected error occurred. Please try again later."

\* agents.py:1428
AGENT_NOT_IN_INPUTS == "Agent not found in agent inputs"

\* the agents of the auto_analyst_ind built by chat_with_agent (app.py:547-551)
\* for the user the session holds after the query parameters are read
IndividualLoaded(p) ==
  AutoAnalystIndAgents(preferences, UpdateSessionFromQueryParams(p).user_id,
                       TRUE, TRUE)

\* chat_with_agent: the handler of POST /chat/{agent_name}, from the query
\* parameters to its response
ChatWithAgent(p, name, outcome) ==
  /\ served < MaxRequests
  /\ BindUser(p)
  /\ Rebind(p)
  /\ IF Admission("agent", p) # NoResponse
     THEN /\ http_response' = Admission("agent", p)
          /\ UNCHANGED invoked
     ELSE IF ~IsAgentAvailable(name)
     THEN /\ http_response' = Respond("agent", 400, AGENT_NOT_FOUND)
          /\ UNCHANGED invoked
     ELSE CASE outcome = "raise" ->
                 /\ http_response' = Respond("agent", 500, UNEXPECTED_ERROR)
                 /\ UNCHANGED invoked
            [] outcome = "timeout" ->
                 /\ http_response' = Respond("agent", 504, REQUEST_TIMED_OUT)
                 /\ invoked' = IF name \in IndividualLoaded(p)
                               THEN Append(invoked, name) ELSE invoked
            [] name \notin IndividualLoaded(p) ->
                 \* forward (1427-1428): the answer is a message, sent with 200
                 /\ http_response' = Respond("agent", 200, AGENT_NOT_IN_INPUTS)
                 /\ UNCHANGED invoked
            [] OTHER ->
                 /\ http_response' = Respond("agent", 200, "")
                 /\ invoked' = Append(invoked, name)
  \* _track_model_usage (591-598): one model_usage row for an answered
  \* request of an identified user
  /\ model_usage' =
       IF /\ Admission("agent", p) = NoResponse
          /\ IsAgentAvailable(name)
          /\ outcome \notin {"raise", "timeout"}
          /\ user_id' # 0
       THEN model_usage + 1 ELSE model_usage
  /\ UNCHANGED <<planText, agents, pc, stop, idx, events, frames,
                 usage_records, usage_count>>
  /\ UNCHANGED <<plan_instructions, ai_user, prefs>>
  /\ UNCHANGED <<deep_analyzer, deep_analyzer_user_id, returned, built_users>>
  /\ UNCHANGED <<deepVars, plannerVars>>
  /\ UNCHANGED <<preferences, pending, view, registry_requests, serviceVars>>

\* debug_deep_analysis_agents: the handler of GET /debug/deep_analysis_agents
DebugDeepAnalysisAgents(outcome) ==
  /\ served < MaxRequests
  /\ served' = served + 1
  /\ GetDeepAnalyzer(outcome)
  /\ http_response' = Respond("debug", 200, "")
  /\ UNCHANGED <<plan_instructions, ai_user, prefs>>
  /\ UNCHANGED <<planVars, deepVars, plannerVars, registryVars, serviceVars>>

\* clear_deep_analyzer_cache: the handler of POST /debug/clear_deep_analyzer
ClearDeepAnalyzerCache ==
  /\ served < MaxRequests
  /\ served' = served + 1
  /\ deep_analyzer' = NoAnalyzer
  /\ deep_analyzer_user_id' = 0
  /\ calls_since_change' = 0
  /\ http_response' = Respond("clear", 200, "")
  /\ UNCHANGED <<returned, built_users>>
  /\ UNCHANGED <<plan_instructions, ai_user, prefs>>
  /\ UNCHANGED <<planVars, deepVars, plannerVars, registryVars, serviceVars>>

\* ------------------------------------------------- deep analysis: actions
\* the row deep_analysis_streaming inserts (models.py defaults for the rest)
PendingRow(r) ==
  [status |-> "pending", progress_percentage |-> 0, start_time |-> now,
   end_time |-> -1, duration_seconds |-> -1, error_message |-> "",
   html_report |-> FALSE, outputs |-> {}, run |-> r]

\* report_id given by the autoincrement primary key
NextReportId == Cardinality({i \in Runs : reports[i].status # "absent"}) + 1

\* status and progress that the error paths persist: update_report_in_db("failed", 0)
FailedWrite == [status |-> "failed", progress |-> 0]

\* update_report_in_db(status, progress, step, content) of the run whose
\* generator captured report_id: the rows after the call
UpdateReport(report_id, status, progress, step, content) ==
  IF report_id = 0 \/ reports[report_id].status = "absent"
  THEN reports
  ELSE LET row == reports[report_id]
           staged ==
             [row EXCEPT
                !.status = status,
                !.progress_percentage = progress,
                !.outputs = IF step \in {"questions", "planning", "analysis"} /\ content
                            THEN @ \cup {step} ELSE @]
       IN  [reports EXCEPT ![report_id] =
              IF step = "completed"
              THEN [staged EXCEPT
                      !.html_report = IF content THEN TRUE ELSE @,
                      !.end_time = now,
                      !.duration_seconds = now - row.start_time]
              ELSE staged]

StreamFrame(step, status, progress) ==
  [step |-> step, status |-> status, progress |-> progress,
   analysis |-> FALSE, html_report |-> FALSE]

\* the frame built by the except branch and by the missing-result check
ErrorFrame == StreamFrame("error", "failed", 0)

\* the three frames app.py builds itself once the conclusion has arrived
AnalysisFrame == StreamFrame("analysis", "completed", 90)

ReportFrame == StreamFrame("report", "processing", 95)

CompletedFrame(html) ==
  [step |-> "completed", status |-> "success", progress |-> 100,
   analysis |-> TRUE, html_report |-> html]

\* the updates execute_deep_analysis_streaming yields for the stages
\* questions, planning, analysis, synthesis, conclusion
AnalyzerUpdates(analysis_progress) ==
  << StreamFrame("questions", "completed", 20),
     StreamFrame("planning", "completed", 40),
     StreamFrame("analysis", "completed", analysis_progress),
     StreamFrame("synthesis", "completed", 90),
     StreamFrame("conclusion", "completed", 95) >>

\* the clock read by datetime.now(UTC); it advances between a request and
\* the start of its stream
Tick == now' = now + 1

\* a run whose generator will run no further code
Ended(r) == runs[r].pc \in {"rejected", "done", "cancelled"}

\* deep_analysis_streaming: the request handler.  The requests of the
\* session arrive one after the other, each after the stream of the one
\* before it has ended.
Request(r, p) ==
  /\ runs[r].pc = "idle"
  /\ IF r = 1 THEN TRUE ELSE Ended(r - 1)
  /\ served < MaxRequests
  /\ BindUser(p)
  /\ Rebind(p)
  /\ IF Admission("deep", p) # NoResponse
     THEN /\ runs' = [runs EXCEPT ![r].pc = "rejected"]
          /\ http_response' = Admission("deep", p)
          /\ UNCHANGED <<reports, sess_report_id>>
     ELSE /\ http_response' = Respond("deep", 200, "")
          /\ \E db_ok \in BOOLEAN :
               IF db_ok
               THEN /\ reports' = [reports EXCEPT ![NextReportId] = PendingRow(r)]
                    /\ sess_report_id' = NextReportId
                    /\ runs' = [runs EXCEPT ![r].pc = "ready", ![r].own = NextReportId]
               ELSE /\ runs' = [runs EXCEPT ![r].pc = "ready"]
                    /\ UNCHANGED <<reports, sess_report_id>>
  /\ Tick
  /\ UNCHANGED has_df
  /\ UNCHANGED <<planText, agents, pc, stop, idx, events, invoked, frames,
                 usage_records, usage_count>>
  /\ UNCHANGED <<plan_instructions, ai_user, prefs>>
  /\ UNCHANGED <<deep_analyzer, deep_analyzer_user_id, returned, built_users>>
  /\ UNCHANGED <<plannerVars, registryVars, serviceVars>>

\* _generate_deep_analysis_stream up to its first yield
StreamStart(r) ==
  /\ runs[r].pc = "ready"
  /\ runs' = [runs EXCEPT
                ![r].pc = "initialized",
                ![r].report_id = sess_report_id,
                ![r].frames = Append(@, StreamFrame("initialization", "starting", 5))]
  /\ Tick
  /\ UNCHANGED <<has_df, sess_report_id, reports>>
  /\ UNCHANGED outsideDeep

\* update_report_in_db("running", 5) and get_deep_analyzer
MarkRunning(r) ==
  /\ runs[r].pc = "initialized"
  /\ reports' = UpdateReport(runs[r].report_id, "running", 5, "none", FALSE)
  /\ \E outcome \in AnalyzerOutcomes :
       /\ GetDeepAnalyzer(outcome)
       /\ IF ~AnalyzerRaises(outcome)
          THEN runs' = [runs EXCEPT ![r].pc = "analyzing"]
          ELSE runs' = [runs EXCEPT ![r].pc = "except_yielded",
                                    ![r].frames = Append(@, ErrorFrame)]
  /\ UNCHANGED <<has_df, sess_report_id, now>>
  /\ UNCHANGED <<planVars, plannerVars, registryVars, serviceVars, chatVars>>

\* one round of the async-for loop over execute_deep_analysis_streaming
AnalyzerUpdate(r) ==
  /\ runs[r].pc = "analyzing"
  /\ \E kind \in {"next", "error", "raise", "end"}, p \in {70, 85},
        final \in BOOLEAN, html_ok \in BOOLEAN :
       LET run == runs[r]
           update == AnalyzerUpdates(p)[run.stage]
       IN  CASE kind = "next" /\ run.stage \in {1, 2} ->
                  /\ reports' = UpdateReport(run.report_id, "running", update.progress,
                                             update.step, TRUE)
                  /\ runs' = [runs EXCEPT ![r].stage = @ + 1]
             [] kind = "next" /\ run.stage \in {3, 4} ->
                  /\ runs' = [runs EXCEPT ![r].stage = @ + 1,
                                          ![r].frames = Append(@, update)]
                  /\ UNCHANGED reports
             [] kind = "next" /\ run.stage = 5 /\ final ->
                  /\ reports' = UpdateReport(run.report_id, "running", update.progress,
                                             "analysis", TRUE)
                  /\ runs' = [runs EXCEPT ![r].stage = 6,
                                          ![r].final_result = TRUE,
                                          ![r].html_report = html_ok,
                                          ![r].frames = Append(@, AnalysisFrame),
                                          ![r].pc = "concl_analysis"]
             [] kind = "next" /\ run.stage = 5 /\ ~final ->
                  /\ runs' = [runs EXCEPT ![r].stage = 6]
                  /\ UNCHANGED reports
             [] kind = "error" /\ run.stage <= 5 ->
                  /\ runs' = [runs EXCEPT ![r].pc = "error_yielded",
                                          ![r].frames = Append(@, ErrorFrame)]
                  /\ UNCHANGED reports
             [] kind = "raise" /\ run.stage <= 5 ->
                  /\ runs' = [runs EXCEPT ![r].pc = "except_yielded",
                                          ![r].frames = Append(@, ErrorFrame)]
                  /\ UNCHANGED reports
             [] kind = "end" /\ run.stage = 6 /\ run.final_result ->
                  /\ runs' = [runs EXCEPT ![r].pc = "done"]
                  /\ UNCHANGED reports
             [] kind = "end" /\ run.stage = 6 /\ ~run.final_result ->
                  /\ runs' = [runs EXCEPT ![r].pc = "error_yielded",
                                          ![r].frames = Append(@, ErrorFrame)]
                  /\ UNCHANGED reports
             [] OTHER -> FALSE
  /\ UNCHANGED <<has_df, sess_report_id, now>>
  /\ UNCHANGED outsideDeep

\* the frames that follow the analysis frame: report, then completed
ConclusionFrames(r) ==
  /\ runs[r].pc \in {"concl_analysis", "concl_report"}
  /\ runs' = IF runs[r].pc = "concl_analysis"
             THEN [runs EXCEPT ![r].pc = "concl_report",
                               ![r].frames = Append(@, ReportFrame)]
             ELSE [runs EXCEPT ![r].pc = "concl_completed",
                               ![r].frames = Append(@, CompletedFrame(runs[r].html_report))]
  /\ UNCHANGED <<has_df, sess_report_id, reports, now>>
  /\ UNCHANGED outsideDeep

\* update_report_in_db("completed", 100, "completed", html_report)
PersistCompleted(r) ==
  /\ runs[r].pc = "concl_completed"
  /\ reports' = UpdateReport(runs[r].report_id, "completed", 100, "completed",
                             runs[r].html_report)
  /\ runs' = [runs EXCEPT ![r].pc = "analyzing"]
  /\ UNCHANGED <<has_df, sess_report_id, now>>
  /\ UNCHANGED outsideDeep

\* the write that follows an error frame, in the loop and in the except branch
PersistFailed(r) ==
  /\ runs[r].pc \in {"error_yielded", "except_yielded"}
  /\ reports' = IF runs[r].pc = "except_yielded" /\ sess_report_id = 0
                THEN reports
                ELSE UpdateReport(runs[r].report_id, FailedWrite.status,
                                  FailedWrite.progress, "none", FALSE)
  /\ runs' = [runs EXCEPT ![r].pc = "done"]
  /\ UNCHANGED <<has_df, sess_report_id, now>>
  /\ UNCHANGED outsideDeep

\* the stream consumer goes away or the request task is cancelled: the
\* generator is closed where it is suspended and runs no further code
Cancel(r) ==
  /\ runs[r].pc \in {"ready", "initialized", "analyzing", "concl_analysis",
                     "concl_report", "concl_completed", "error_yielded",
                     "except_yielded"}
  /\ runs' = [runs EXCEPT ![r].pc = "cancelled"]
  /\ UNCHANGED <<has_df, sess_report_id, reports, now>>
  /\ UNCHANGED outsideDeep

DeepInit ==
  /\ PlanStart(<< >>, {BasicQA}, 1)
  /\ DeepIdle
  /\ PlannerIdle
  /\ plan_instructions = NoPayload
  /\ ai_user = user_id
  /\ prefs = [u \in Users |-> NoPreferences]
  /\ http_response = NoResponse
  /\ served = 0
  /\ AnalyzerIdle
  /\ RegistryIdle
  /\ ServiceIdle

DeepNext ==
  \/ \E r \in Runs, p \in UserParams : Request(r, p)
  \/ \E r \in Runs : StreamStart(r)
  \/ \E r \in Runs : MarkRunning(r)
  \/ \E r \in Runs : AnalyzerUpdate(r)
  \/ \E r \in Runs : ConclusionFrames(r)
  \/ \E r \in Runs : PersistCompleted(r)
  \/ \E r \in Runs : PersistFailed(r)
  \/ \E r \in Runs : Cancel(r)

DeepSpec == DeepInit /\ [][DeepNext]_vars

\* ----------------------------------------------------------- the session
\* preference rows of the two users: the first has a custom template
\* switched on, or only that one left on; the second has switched every
\* planner template off
SessionPreferences ==
  {[u \in Users |->
      IF u = 1 THEN rows
      ELSE [NoPreferences EXCEPT !["planner_preprocessing_agent"] = "off",
                                 !["planner_data_viz_agent"] = "off"]] :
     rows \in {[NoPreferences EXCEPT !["custom_agent"] = "on"],
               [NoPreferences EXCEPT !["planner_preprocessing_agent"] = "off",
                                     !["planner_data_viz_agent"] = "off",
                                     !["custom_agent"] = "on"]}}

\* a session created for a user (or for none) whose requests are about to
\* arrive
SessionInit ==
  /\ prefs \in SessionPreferences
  /\ \E user \in {0, 1} :
       NothingServed(<< >>, AgentsBuiltFor(user, PrefsOf(user)), user)
  /\ pc = "idle"
  /\ DeepIdle
  /\ PlannerIdle
  /\ plan_instructions = NoPayload
  /\ ai_user = user_id
  /\ http_response = NoResponse
  /\ served = 0
  /\ AnalyzerIdle
  /\ RegistryIdle
  /\ ServiceIdle

\* the request handlers of the session, with the deep-analysis stream up to
\* its call of get_deep_analyzer and the end it comes to when that call
\* raises; the stream of an accepted planned request is followed in ChatSpec
SessionNext ==
  \/ \E p \in UserParams : ChatWithAll(p)
  \/ \E p \in UserParams, name \in AgentRequests,
        outcome \in {"result", "timeout", "raise"} : ChatWithAgent(p, name, outcome)
  \/ \E r \in Runs, p \in UserParams : Request(r, p)
  \/ \E r \in Runs : StreamStart(r)
  \/ \E r \in Runs : MarkRunning(r)
  \/ \E r \in Runs : PersistFailed(r)
  \/ \E outcome \in AnalyzerOutcomes : DebugDeepAnalysisAgents(outcome)
  \/ ClearDeepAnalyzerCache

SessionSpec == SessionInit /\ [][SessionNext]_vars

\* ------------------------------------------------------ the registry: actions
\* the preference rows a user can have written with the toggle route and
\* by running plans: seven templates switched on, three of them used
UsedAndEnabled ==
  [t \in TemplateNames |->
     CASE t = "planner_matplotlib_agent" -> << PreferenceRow(TRUE, 2, 4) >>
       [] t = "planner_polars_agent" -> << PreferenceRow(TRUE, 1, 2) >>
       [] t = "planner_seaborn_agent" -> << PreferenceRow(TRUE, 1, 1) >>
       [] t \in {"planner_xgboost_agent", "planner_pytorch_agent",
                 "planner_duckdb_agent", "planner_scipy_agent"} ->
            << PreferenceRow(TRUE, 0, 0) >>
       [] OTHER -> << >>]

\* the tables the registry is started on: no rows; nine planner templates
\* enabled for user 1 (seven rows and two defaults); ten enabled, and an
\* eleventh that was used in plans and then switched off
InitialTables ==
  LET none == [t \in TemplateNames |-> << >>]
      ten == [UsedAndEnabled EXCEPT
                !["custom_agent"] = << PreferenceRow(TRUE, 0, 0) >>,
                !["planner_prophet_agent"] = << PreferenceRow(FALSE, 3, 5) >>]
  IN  { [u \in Users |-> none],
        [u \in Users |-> IF u = 1 THEN UsedAndEnabled ELSE none],
        [u \in Users |-> IF u = 1 THEN ten ELSE none] }

\* templates named in toggle requests
ToggleTargets ==
  {"planner_prophet_agent", "planner_data_viz_agent", "helper_agent",
   "retired_agent"}

\* the "preferences" lists of the bulk-toggle requests: one entry, an entry
\* without its is_enabled key, an enable with a disable, a template named
\* twice, and entries that ask for the value the template already has
BulkRequests ==
  { << BulkEntry("planner_prophet_agent", "true") >>,
    << BulkEntry("planner_prophet_agent", "absent") >>,
    << BulkEntry("planner_scipy_agent", "false") >>,
    << BulkEntry("planner_prophet_agent", "true"),
       BulkEntry("helper_agent", "false") >>,
    << BulkEntry("planner_preprocessing_agent", "true"),
       BulkEntry("planner_preprocessing_agent", "false") >>,
    << BulkEntry("planner_scipy_agent", "true"),
       BulkEntry("planner_prophet_agent", "false") >> }

\* agents called in plans
PlanCalls == {"custom_agent", "planner_data_viz_agent"}

\* agents called in individual mode
IndividualCalls == {"data_viz_agent", "helper_agent"}

\* how an agent call ends: the agent raises, or it returns and the usage
\* tracking commits or fails
CallOutcomes == {"raised", "tracked", "tracking_failed"}

\* the answer of a registry operation
View(op, user, status, names, ranked) ==
  [op |-> op, user |-> user, status |-> status, names |-> names, ranked |-> ranked]

\* a request that writes: the table it leaves and its answer
Write(tbl, answer) ==
  /\ registry_requests < MaxRegistryRequests
  /\ registry_requests' = registry_requests + 1
  /\ preferences' = tbl
  /\ view' = answer
  /\ UNCHANGED <<pending, model_usage>>
  /\ UNCHANGED <<planVars, deepVars, plannerVars, chatVars, analyzerVars, serviceVars>>

\* a request that reads, and its answer
Read(answer) == Write(preferences, answer)

\* POST /templates/user/{user_id}/template/{template_id}/toggle
Toggle(user, t, is_enabled, db_ok) ==
  LET r == ToggleTemplatePreference(preferences, user, t, is_enabled, db_ok)
  IN  Write(r.tbl, View("toggle", user, r.status, {t}, << >>))

\* POST /templates/user/{user_id}/bulk-toggle
BulkToggle(user, entries, db_ok) ==
  LET r == BulkToggleTemplatePreferences(preferences, user, entries, db_ok)
  IN  Write(r.tbl, View("bulk_toggle", user, r.status,
                        {entries[i].template_id : i \in 1..Len(entries)}, << >>))

\* the table after execute_agent (1864-1877, 1385-1405) for the outcome of
\* the call: _track_agent_usage runs when the agent returned
AfterCall(user, name, outcome) ==
  IF outcome = "raised" THEN preferences
  ELSE TrackUsageInStore(preferences, user, name,
                         FirstPreference(preferences, user, name),
                         outcome = "tracked")

\* auto_analyst.execute_agent for an agent of the AI system built for the
\* user
PlannedAgentCall(user, name, outcome) ==
  /\ \E order \in QueryOrders :
       name \in AutoAnalystAgents(user, PreferenceOf(preferences, user),
                  LoadUserEnabledTemplatesForPlanner(preferences, user, order, TRUE))
  /\ Write(AfterCall(user, name, outcome),
           View("planned_call", user, IF outcome = "raised" THEN 500 ELSE 200,
                {name}, << outcome >>))

\* auto_analyst_ind.forward for one agent of the individual AI system built
\* for the user
IndividualAgentCall(user, name, outcome) ==
  /\ name \in AutoAnalystIndAgents(preferences, user, TRUE, TRUE)
  /\ Write(AfterCall(user, name, outcome),
           View("individual_call", user, IF outcome = "raised" THEN 500 ELSE 200,
                {name}, << outcome >>))

\* auto_analyst(agents, retrievers, user_id, db_session): the planned AI
\* system built for a user
BuildAutoAnalyst(user, order, db_ok) ==
  Read(View("auto_analyst", user, IF db_ok THEN 200 ELSE 500,
            AutoAnalystAgentsBuilt(user, PreferenceOf(preferences, user),
              LoadUserEnabledTemplatesForPlanner(preferences, user, order, db_ok),
              db_ok),
            << >>))

\* auto_analyst_ind(agents=[], retrievers, user_id, db_session): the
\* individual AI system chat_with_agent builds for a request
BuildAutoAnalystInd(user, db_ok) ==
  Read(View("auto_analyst_ind", user, IF db_ok THEN 200 ELSE 500,
            AutoAnalystIndAgents(preferences, user, db_ok, db_ok), << >>))

\* GET /templates/user/{user_id}/enabled/planner
GetUserEnabledTemplatesForPlanner(user, order) ==
  LET ranked == RankedPlannerTemplates(preferences, user, order)
  IN  Read(View("enabled_for_planner", user, 200, Range(ranked), ranked))

\* load_user_enabled_templates_for_planner_from_db, as the deep analyzer and
\* the planned AI system call it
LoadForPlanner(user, order) ==
  LET ranked == RankedPlannerTemplates(preferences, user, order)
  IN  Read(View("planner_loader", user, 200,
                LoadUserEnabledTemplatesForPlanner(preferences, user, order, TRUE),
                ranked))

\* load_user_enabled_templates_from_db called for a user
LoadEnabled(user) ==
  Read(View("loader", user, 200,
            LoadUserEnabledTemplates(preferences, user, TRUE), << >>))

\* GET /templates/user/{user_id}?variant_type=...
GetUserTemplatePreferences(user, variant_type) ==
  Read(View(variant_type, user, 200,
            RouteEnabledTemplates(preferences, user, variant_type), << >>))

RegistryInit ==
  /\ preferences \in InitialTables
  /\ pending = << >>
  /\ view = NoView
  /\ registry_requests = 0
  /\ model_usage = 0
  /\ ServiceIdle
  /\ NothingServed(<< >>, {BasicQA}, 0)
  /\ pc = "idle"
  /\ DeepIdle
  /\ has_df = FALSE
  /\ PlannerIdle
  /\ plan_instructions = NoPayload
  /\ ai_user = 0
  /\ prefs = [u \in Users |-> NoPreferences]
  /\ http_response = NoResponse
  /\ served = 0
  /\ AnalyzerIdle

RegistryNext ==
  \/ \E user \in Users, t \in ToggleTargets, is_enabled \in BOOLEAN :
       Toggle(user, t, is_enabled, TRUE)
  \/ \E user \in Users, entries \in BulkRequests : BulkToggle(user, entries, TRUE)
  \/ \E user \in Users, name \in PlanCalls, outcome \in CallOutcomes :
       PlannedAgentCall(user, name, outcome)
  \/ \E user \in Users, name \in IndividualCalls, outcome \in CallOutcomes :
       IndividualAgentCall(user, name, outcome)
  \/ \E user \in Users, order \in QueryOrders, db_ok \in BOOLEAN :
       BuildAutoAnalyst(user, order, db_ok)
  \/ \E user \in Users, db_ok \in BOOLEAN : BuildAutoAnalystInd(user, db_ok)
  \/ \E user \in Users, order \in QueryOrders :
       GetUserEnabledTemplatesForPlanner(user, order)
  \/ \E user \in Users, order \in QueryOrders : LoadForPlanner(user, order)
  \/ \E user \in Users : LoadEnabled(user)
  \/ \E user \in Users, variant_type \in VariantTypes :
       GetUserTemplatePreferences(user, variant_type)

RegistrySpec == RegistryInit /\ [][RegistryNext]_vars

\* ------------------------------------------- the registry: concurrent writes
\* templates that concurrent writers of the preference store name
RaceTargets == {"planner_prophet_agent", "custom_agent"}

\* a write that has run its query of the pair and has not committed: what it
\* is, the pair, the value a toggle carries, and the row its query found
InFlight(kind, user, t, is_enabled, found) ==
  [kind |-> kind, user |-> user, template |-> t, is_enabled |-> is_enabled,
   found |-> found]

RemoveAt(s, i) == SubSeq(s, 1, i - 1) \o SubSeq(s, i + 1, Len(s))

\* a writer of another worker or session starts: its query of the pair
\* (agents.py:238-241, 1824-1827) sees the rows committed so far
Begin(kind, user, t, is_enabled) ==
  /\ registry_requests < MaxRegistryRequests
  /\ registry_requests' = registry_requests + 1
  /\ pending' = Append(pending, InFlight(kind, user, t, is_enabled,
                                         FirstPreference(preferences, user, t)))
  /\ UNCHANGED <<preferences, view, model_usage>>
  /\ UNCHANGED <<planVars, deepVars, plannerVars, chatVars, analyzerVars, serviceVars>>

\* toggle_user_template_preference from its query of the pair on
BeginToggle(user, t, is_enabled) == Begin("toggle", user, t, is_enabled)

\* _track_agent_usage from its query of the pair on
BeginTrack(user, t) == Begin("track", user, t, FALSE)

\* the writer adds or updates its row and commits; a commit the table
\* refuses is rolled back (agents.py:273-275, 1855-1857)
Commit(i) ==
  LET w == pending[i]
      inserts == w.found = << >>
      after == IF w.kind = "toggle"
               THEN ToggleUserTemplatePreference(preferences, w.user, w.template,
                                                 w.is_enabled, w.found, TRUE).tbl
               ELSE TrackUsageInStore(preferences, w.user, w.template, w.found, TRUE)
      refused == inserts /\ after = preferences
  IN  /\ preferences' = after
      /\ pending' = RemoveAt(pending, i)
      /\ view' = View(w.kind, w.user, IF refused THEN 400 ELSE 200, {w.template},
                      << IF inserts THEN "insert" ELSE "update" >>)
      /\ UNCHANGED <<registry_requests, model_usage>>
      /\ UNCHANGED <<planVars, deepVars, plannerVars, chatVars, analyzerVars, serviceVars>>

RaceInit == RegistryInit

RaceNext ==
  \/ \E user \in Users, t \in RaceTargets, is_enabled \in BOOLEAN :
       BeginToggle(user, t, is_enabled)
  \/ \E user \in Users, t \in RaceTargets : BeginTrack(user, t)
  \/ \E i \in 1..Len(pending) : Commit(i)

RaceSpec == RaceInit /\ [][RaceNext]_vars

\* ------------------------------------------------ individual mode: actions
\* names a request can carry after the "@": two agents of the individual
\* system and a template that is not loaded in individual mode
IndNames == {"data_viz_agent", "custom_agent", "planner_prophet_agent"}

\* self.agents of the auto_analyst_ind instance the request is served by
IndAgents == AutoAnalystIndAgents(preferences, 1, TRUE, TRUE)

\* an entry of the dict forward returns: its key, and whether the value is
\* an agent's result, an {"error": ...} dict or a message string
Entry(key, kind) == [key |-> key, kind |-> kind]

\* results[key] = value
Put(dict, key, kind) == {e \in dict : e.key # key} \cup {Entry(key, kind)}

\* one call of self.agents[name](**inputs) and how it ended
Called(name, outcome) == [agent |-> name, outcome |-> outcome]

\* auto_analyst_ind.forward up to the for loop of execute_multiple_agents;
\* for a single name, to its return
Forward ==
  /\ ipc = "start"
  /\ \E ctx_ok \in BOOLEAN, outcome \in {"result", "error_result", "raise"} :
       LET name == agent_list[1]
       IN  CASE ~ctx_ok ->
                  \* retrieve() raised: the outer except of either function
                  /\ results' = {Entry("response", "message")}
                  /\ ipc' = "done"
                  /\ UNCHANGED called
             [] ctx_ok /\ Len(agent_list) > 1 ->
                  /\ ipc' = "loop"
                  /\ UNCHANGED <<results, called>>
             [] ctx_ok /\ Len(agent_list) = 1 /\ name \notin IndAgents ->
                  /\ results' = {Entry("response", "message")}
                  /\ ipc' = "done"
                  /\ UNCHANGED called
             [] OTHER ->
                  /\ called' = Append(called, Called(name, outcome))
                  /\ results' = IF outcome = "result"
                                THEN {Entry(name, "result")}
                                ELSE {Entry("response", "message")}
                  /\ ipc' = "done"
  /\ UNCHANGED <<agent_list, agent_idx>>
  /\ UNCHANGED <<planVars, deepVars, plannerVars, chatVars, analyzerVars,
                 registryVars, outsideInd>>

\* one iteration of the for loop of execute_multiple_agents, and the return
\* that follows the last one
AgentStep ==
  /\ ipc = "loop"
  /\ IF agent_idx > Len(agent_list)
     THEN /\ ipc' = "done"
          /\ UNCHANGED <<results, called, agent_idx>>
     ELSE LET name == agent_list[agent_idx]
          IN  /\ agent_idx' = agent_idx + 1
              /\ ipc' = "loop"
              /\ IF name \notin IndAgents
                 THEN /\ results' = Put(results, name, "error")
                      /\ UNCHANGED called
                 ELSE \E outcome \in {"result", "raise"} :
                        /\ called' = Append(called, Called(name, outcome))
                        /\ results' = Put(results, name,
                                          IF outcome = "result" THEN "result"
                                          ELSE "error")
  /\ UNCHANGED agent_list
  /\ UNCHANGED <<planVars, deepVars, plannerVars, chatVars, analyzerVars,
                 registryVars, outsideInd>>

\* an individual request about to be served by forward
IndividualInit ==
  /\ agent_list \in SeqsUpTo(IndNames, MaxAgents) \ {<< >>}
  /\ ipc = "start"
  /\ results = {}
  /\ called = << >>
  /\ agent_idx = 1
  /\ QueryIdle
  /\ CostIdle
  /\ PlanStart(<< >>, {BasicQA}, 1)
  /\ DeepIdle
  /\ has_df = TRUE
  /\ PlannerIdle
  /\ plan_instructions = NoPayload
  /\ ai_user = user_id
  /\ prefs = [u \in Users |-> NoPreferences]
  /\ http_response = NoResponse
  /\ served = 0
  /\ AnalyzerIdle
  /\ RegistryIdle

IndividualNext == Forward \/ AgentStep

IndividualSpec == IndividualInit /\ [][IndividualNext]_vars

\* ---------------------------------------------------- the query parameters
\* session ids a request can find in the session; 0 stands for None
SessionIds == {0, 1, 2}

\* _update_session_from_query_params, lines 667-674: session_state["chat_id"]
\* after the chat_id parameter c is read; a chat_id that is no integer is
\* logged and the session is left as it was
ChatIdAfter(c) ==
  IF c = "absent" \/ ParseInt(c) = -1 THEN chat_id ELSE ParseInt(c)

\* _update_session_from_query_params as the chat handlers call it: the
\* chat_id is stored first, then the user_id is read, and a user_id that is
\* no integer raises the 400; without it the handler goes on
UpdateSession ==
  /\ qpc = "start"
  /\ qpc' = "done"
  /\ chat_id' = ChatIdAfter(query_params.chat_id)
  /\ user_id' = UpdateSessionFromQueryParams(query_params.user_id).user_id
  /\ http_response' =
       IF UpdateSessionFromQueryParams(query_params.user_id).raised
       THEN Respond("chat", 400, INVALID_USER_ID)
       ELSE NoResponse
  /\ UNCHANGED <<query_params, outsideQuery>>
  /\ UNCHANGED <<planText, agents, pc, stop, idx, events, frames,
                 usage_records, usage_count, invoked>>
  /\ UNCHANGED <<plan_instructions, ai_user, prefs, served>>
  /\ UNCHANGED <<deepVars, plannerVars, analyzerVars, registryVars>>

\* a chat request about to be served in a session
QueryInit ==
  /\ query_params \in [chat_id : UserParams, user_id : UserParams]
  /\ chat_id \in SessionIds
  /\ qpc = "start"
  /\ IndIdle
  /\ CostIdle
  /\ \E user \in SessionIds : PlanStart(<< >>, {BasicQA}, user)
  /\ DeepIdle
  /\ has_df = TRUE
  /\ PlannerIdle
  /\ plan_instructions = NoPayload
  /\ ai_user = user_id
  /\ prefs = [u \in Users |-> NoPreferences]
  /\ http_response = NoResponse
  /\ served = 0
  /\ AnalyzerIdle
  /\ RegistryIdle

QueryNext == UpdateSession

QuerySpec == QueryInit /\ [][QueryNext]_vars

\* ------------------------------------------------------ the model registry
\* a row of MODEL_COSTS: dollars per 1K tokens, in millionths of a dollar
Rate(input, output) == [input |-> input, output |-> output]

\* model_registry.py:10-38; the providers in the order the dict keeps them
Providers == << "openai", "anthropic", "groq", "gemini" >>

MODEL_COSTS ==
  [provider \in {"openai", "anthropic", "groq", "gemini"} |->
     CASE provider = "openai" ->
            ("o1" :> Rate(15000, 60000)) @@ ("o1-pro" :> Rate(15000, 600000)) @@
            ("o1-mini" :> Rate(110, 440)) @@ ("o3" :> Rate(2000, 8000)) @@
            ("o3-mini" :> Rate(110, 440)) @@ ("gpt-5" :> Rate(1250, 10000)) @@
            ("gpt-5-mini" :> Rate(250, 2000)) @@ ("gpt-5-nano" :> Rate(50, 400))
       [] provider = "anthropic" ->
            ("claude-3-5-haiku-latest" :> Rate(250, 125)) @@
            ("claude-3-7-sonnet-latest" :> Rate(3000, 15000)) @@
            ("claude-3-5-sonnet-latest" :> Rate(3000, 15000)) @@
            ("claude-sonnet-4-20250514" :> Rate(3000, 15000)) @@
            ("claude-3-opus-latest" :> Rate(15000, 75000)) @@
            ("claude-opus-4-20250514" :> Rate(15000, 75000)) @@
            ("claude-opus-4-1" :> Rate(15000, 75000))
       [] provider = "groq" ->
            ("deepseek-r1-distill-llama-70b" :> Rate(750, 990)) @@
            ("gpt-oss-120B" :> Rate(750, 990)) @@
            ("gpt-oss-20B" :> Rate(750, 990))
       [] OTHER ->
            ("gemini-2.5-pro-preview-03-25" :> Rate(150, 1000))]

\* the model names listed in the table
TableModels == UNION {DOMAIN MODEL_COSTS[Providers[i]] : i \in 1..Len(Providers)}

\* str.lower() on one character: the capital letters of the names in use
LowerChar(c) ==
  CASE c = "B" -> "b" [] c = "O" -> "o" [] c = "G" -> "g" [] c = "P" -> "p"
    [] c = "T" -> "t" [] c = "M" -> "m" [] c = "I" -> "i" [] c = "N" -> "n"
    [] OTHER -> c

\* str.lower()
RECURSIVE Lower(_)
Lower(s) ==
  IF s = "" THEN "" ELSE LowerChar(SubSeq(s, 1, 1)) \o Lower(SubSeq(s, 2, Len(s)))

\* the Python test  sub in s  on strings
Contains(sub, s) ==
  \E i \in 1..(Len(s) - Len(sub) + 1) : SubSeq(s, i, i + Len(sub) - 1) = sub

\* get_provider_for_model: the first provider one of whose model names has
\* the lower-cased model_name as a substring
GetProviderForModel(name) ==
  IF name = "" THEN "Unknown"
  ELSE LET matching == {i \in 1..Len(Providers) :
                          \E model \in DOMAIN MODEL_COSTS[Providers[i]] :
                            Contains(Lower(name), model)}
       IN  IF matching = {} THEN "Unknown"
           ELSE Providers[CHOOSE i \in matching : \A j \in matching : i <= j]

\* calculate_cost, in units of 10^-9 dollars (tokens times millionths of a
\* dollar per 1K tokens)
CalculateCost(name, input, output) ==
  IF name = "" THEN 0
  ELSE LET model_provider == GetProviderForModel(name)
       IN  IF \/ model_provider = "Unknown"
              \/ name \notin DOMAIN MODEL_COSTS[model_provider]
           THEN 0
           ELSE input * MODEL_COSTS[model_provider][name].input
                + output * MODEL_COSTS[model_provider][name].output

\* model names asked of calculate_cost: the table's names, names that are
\* not in it, a name in other letter case, part of a name, and no name
ModelNames == TableModels \cup {"gpt-4o", "O3-MINI", "mini", ""}

\* token counts of a call
TokenCounts == {0, 500, 2000}

\* the call of calculate_cost made for a usage record
CalculateCostCall ==
  /\ cpc = "start"
  /\ cpc' = "done"
  /\ cost' = CalculateCost(model_name, input_tokens, output_tokens)
  /\ UNCHANGED <<model_name, input_tokens, output_tokens, outsideCost>>
  /\ UNCHANGED <<planVars, deepVars, plannerVars, chatVars, analyzerVars,
                 registryVars>>

CostInit ==
  /\ model_name \in ModelNames
  /\ input_tokens \in TokenCounts
  /\ output_tokens \in TokenCounts
  /\ cost = 0
  /\ cpc = "start"
  /\ IndIdle
  /\ QueryIdle
  /\ PlanStart(<< >>, {BasicQA}, 1)
  /\ DeepIdle
  /\ has_df = TRUE
  /\ PlannerIdle
  /\ plan_instructions = NoPayload
  /\ ai_user = user_id
  /\ prefs = [u \in Users |-> NoPreferences]
  /\ http_response = NoResponse
  /\ served = 0
  /\ AnalyzerIdle
  /\ RegistryIdle

CostNext == CalculateCostCall

CostSpec == CostInit /\ [][CostNext]_vars

PlanNext == GetPlan \/ ExecStart \/ Step

PlanSpec == PlanInit /\ [][PlanNext]_vars

\* the stream of a planned request whose consumer keeps reading: the
\* generator is resumed until it returns
PlanLiveSpec == PlanInit /\ [][PlanNext]_vars /\ WF_vars(PlanNext)

\* ------------------------------------------------- properties: plan executor
\* the parsed steps of the plan under execution
PlanList == SplitPlan(planText)

\* the agent names carried by the emitted events
EventNames == [i \in 1..Len(events) |-> events[i].agent]

IsLoaded(name) == name \in agents

\* the request is over and execute_plan ran without being abandoned by its
\* consumer before its own end
ExecutionOver ==
  pc = "done" /\ stop \in {"exhausted", "plan_not_found", "qa_only", "exec_error"}

\* the request is over and execute_plan was called
ExecutionRan ==
  pc = "done" /\ stop \notin {"planner_error", "timeout", "invalid_plan"}

\* the for loop of execute_plan has been entered
InLoop ==
  \/ pc = "loop"
  \/ pc = "done" /\ stop \in {"exhausted", "invalid_step"} /\ idx > 1

\* the plan has no steps, or none of its steps names a loaded agent
NoStepLoaded ==
  \/ PlanList = << >>
  \/ \A i \in 1..Len(PlanList) : ~IsLoaded(PlanList[i])

\* the retrieval of the dataset and styling context did not raise
ContextRetrieved == stop # "exec_error"

\* C1 as stated: for every execution of a plan the agent names of the
\* emitted events are the plan's steps in order, apart from at most one
\* trailing error event, whatever names the plan contains.
C1_EventsFollowAnyPlan ==
  ExecutionOver =>
    \/ EventNames = PlanList
    \/ EventNames = Append(PlanList, "error")

\* C1 amended: when the context retrieval succeeds, the plan text does not
\* contain basic_qa_agent and at least one parsed step names a loaded agent,
\* the agent names of the emitted events are the parsed steps in order,
\* whether the steps succeed, fail or are not loaded; in every other case
\* exactly one event is emitted (basic_qa_agent, plan_not_found or error).
C1_EventsFollowPlan ==
  ExecutionOver =>
    IF /\ ContextRetrieved
       /\ ~ContainsBasicQA(planText)
       /\ ~NoStepLoaded
    THEN EventNames = PlanList
    ELSE /\ Len(events) = 1
         /\ events[1].agent =
              IF ~ContextRetrieved THEN "error"
              ELSE IF ContainsBasicQA(planText) THEN BasicQA
              ELSE "plan_not_found"

C1_Witness ==
  /\ pc = "done" /\ stop = "exhausted"
  /\ Len(events) >= 2
  /\ PlanList # planText
  /\ \E i \in 1..Len(events) : ~IsLoaded(events[i].agent)
  /\ \E i \in 1..Len(events) :
       IsLoaded(events[i].agent) /\ events[i].response = "error"

\* the frame of an error entry for step i
ErrorEntryAt(i) ==
  /\ Len(frames) >= i + 1
  /\ frames[i + 1].agent = FrameAgent(PlanList[i])
  /\ frames[i + 1].content = FormatResponse("error")

StatusRank(status) ==
  CASE status = "pending" -> 0
    [] status = "running" -> 1
    [] status \in {"completed", "failed"} -> 2
    [] OTHER -> -1

Stored(i) == reports[i].status # "absent"

\* the stream of run r has delivered an error frame to its consumer
ErrorDelivered(r) ==
  \E k \in 1..Len(runs[r].frames) : runs[r].frames[k].step = "error"

\* run r has a row of its own and its generator ended by itself on an error
EndedInError(r) ==
  runs[r].pc = "done" /\ runs[r].own # 0 /\ ErrorDelivered(r)

\* run r ran to its normal end
Succeeded(r) == runs[r].pc = "done" /\ runs[r].final_result

\* C3: the persisted status of every report row only moves forward along
\* pending -> running -> {completed, failed}; a completed or failed row keeps
\* its status and no write moves a row back.
C3_StatusOnlyAdvances ==
  [][\A i \in Runs :
       Stored(i) =>
         /\ StatusRank(reports'[i].status) >= StatusRank(reports[i].status)
         /\ StatusRank(reports[i].status) = 2 =>
              reports'[i].status = reports[i].status]_vars

\* C4: the progress_percentage values written to a report row never
\* decrease from one persisted snapshot to the next, the snapshot of a
\* failing run included.
C4_ProgressNeverDecreases ==
  [][\A i \in Runs :
       Stored(i) =>
         reports'[i].progress_percentage >= reports[i].progress_percentage]_vars

\* C5: when a run has ended in an error its row has status failed, a
\* recorded error_message, and end_time and duration_seconds set, the
\* duration being end_time - start_time.
C5_FailedRowIsComplete ==
  \A r \in Runs :
    EndedInError(r) =>
      LET row == reports[runs[r].own]
      IN  /\ row.status = "failed"
          /\ row.error_message # ""
          /\ row.end_time # -1
          /\ row.duration_seconds = row.end_time - row.start_time

\* C6: the consumer never holds the error frame of a run while the row of
\* that run is still pending or running.
C6_FailedRowBeforeErrorFrame ==
  \A r \in Runs :
    runs[r].own # 0 /\ ErrorDelivered(r) =>
      reports[runs[r].own].status \notin {"pending", "running"}

\* C7: once nothing more will run, the row of a cancelled run has status
\* failed and error_message "cancelled"; it is not left pending or running.
C7_CancelledRowIsFailed ==
  (\A q \in Runs : Ended(q)) =>
    \A r \in Runs :
      runs[r].pc = "cancelled" /\ runs[r].own # 0 =>
        /\ reports[runs[r].own].status = "failed"
        /\ reports[runs[r].own].error_message = "cancelled"

\* C8: a successful run streams one frame per stage, initialization (5),
\* questions (20), planning (40), analysis (at least 70), synthesis (90),
\* conclusion (95), report (100), and then, last, the completed frame with
\* the analysis bundle and the html report.
C8_StageFramesInOrder ==
  \A r \in Runs :
    Succeeded(r) =>
      LET f == runs[r].frames
      IN  /\ Len(f) = 8
          /\ f[1].step = "initialization" /\ f[1].progress = 5
          /\ f[2].step = "questions" /\ f[2].progress = 20
          /\ f[3].step = "planning" /\ f[3].progress = 40
          /\ f[4].step = "analysis" /\ f[4].progress >= 70
          /\ f[5].step = "synthesis" /\ f[5].progress = 90
          /\ f[6].step = "conclusion" /\ f[6].progress = 95
          /\ f[7].step = "report" /\ f[7].progress = 100
          /\ f[8].step = "completed" /\ f[8].analysis /\ f[8].html_report

\* ----------------------------------------------------- properties: planner
\* the Agent_desc argument is the empty list, as a list or as its text
EmptyAgentDesc == Agent_desc \in {"", "[]"}

\* the predictors called so far, in order
Callees == [i \in 1..Len(lm_calls) |-> lm_calls[i].callee]

\* C12: called with an empty agent description list, the planner returns
\* the plan no_agents_available and calls neither the complexity classifier
\* nor any sub-planner.
C12_EmptyDescNoLanguageModel ==
  EmptyAgentDesc =>
    /\ lm_calls = << >>
    /\ ppc = "returned" =>
         /\ module_return.plan_is_str
         /\ module_return.plan = <<NO_AGENTS_AVAILABLE>>

C12_Witness ==
  /\ ppc = "returned"
  /\ Agent_desc = "[]"
  /\ module_return = NoAgentsReturn
  /\ Callees = << >>

\* the sub-planner chosen from the classifier's answer was called and raised
ChosenPlannerFailed ==
  /\ complexity \in PlannerNames
  /\ Len(lm_calls) >= 2
  /\ lm_calls[2].raised

\* the latest language-model call
LastCall == lm_calls[Len(lm_calls)]

\* what forward returns for a fallback answer: the answer under complexity
\* intermediate, or no_agents_available when the answer says so
ProducedByFallback(answer) ==
  IF PlanMentionsNoAgents(answer.plan)
  THEN NoAgentsReturn
  ELSE ModuleReturn("intermediate", FALSE, answer.plan, answer.plan_instructions)

\* C14 as stated: whenever the chosen sub-planner failed, or the classifier's
\* answer is no key of the sub-planners, the last call is the intermediate
\* planner and the planner returns what that call produced.
C14_FallbackAlwaysAnswers ==
  (/\ ppc = "returned"
   /\ \/ ChosenPlannerFailed
      \/ (complexity # "" /\ complexity \notin PlannerNames)) =>
    /\ LastCall.callee = "intermediate"
    /\ ~LastCall.raised
    /\ module_return = ProducedByFallback(LastCall)

\* C14 amended: whenever the chosen sub-planner failed, or the classifier's
\* answer is neither `unrelated` nor a key of the sub-planners, the planner
\* calls the intermediate planner once more as fallback and returns what it
\* produces, no_agents_available included; when the fallback raises too, the
\* planner returns the plan basic_qa_agent under complexity error.
C14_FallbackToIntermediate ==
  (/\ ppc = "returned"
   /\ \/ ChosenPlannerFailed
      \/ (complexity # "" /\ complexity \notin PlannerNames \cup {"unrelated"})) =>
    /\ LastCall.callee = "intermediate"
    /\ Len(lm_calls) = IF ChosenPlannerFailed THEN 3 ELSE 2
    /\ module_return = IF LastCall.raised
                       THEN PlanningErrorReturn
                       ELSE ProducedByFallback(LastCall)

C14_Witness ==
  /\ ppc = "returned"
  /\ complexity = "advanced"
  /\ Callees = <<"allocator", "advanced", "intermediate">>
  /\ ChosenPlannerFailed
  /\ module_return = NoAgentsReturn

\* ------------------------------------------------ properties: planned chat
\* the planner classified the query as unrelated and the plan it returned
\* was executed
UnrelatedExecuted == complexity = "unrelated" /\ ExecutionRan

\* C11 as stated: when the planner classifies the query as unrelated,
\* executing the returned plan yields exactly one event, whose agent is
\* basic_qa_agent; no other agent is invoked and no second event follows.
C11_UnrelatedYieldsBasicQA ==
  UnrelatedExecuted =>
    /\ Len(events) = 1
    /\ events[1].agent = BasicQA
    /\ invoked = <<BasicQA>>

\* C11 amended: when the planner classifies the query as unrelated,
\* executing the returned plan yields exactly one event; when the context
\* retrieval of the executor succeeds its agent is basic_qa_agent and
\* basic_qa_agent is the only agent invoked, and when the retrieval fails it
\* is the error event and no agent is invoked.
C11_UnrelatedYieldsOneEvent ==
  UnrelatedExecuted =>
    /\ Len(events) = 1
    /\ IF ContextRetrieved
       THEN events[1].agent = BasicQA /\ invoked = <<BasicQA>>
       ELSE events[1].agent = "error" /\ invoked = << >>

C11_Witness ==
  /\ complexity = "unrelated"
  /\ pc = "done" /\ stop = "qa_only"
  /\ "planner_data_viz_agent" \in agents
  /\ Len(events) = 1 /\ events[1].agent = BasicQA
  /\ Len(lm_calls) = 1

\* the session's user has switched every planner template off
AllPlannerTemplatesDisabled ==
  /\ user_id \in Users
  /\ ai_user = user_id
  /\ EnabledPlannerTemplates(prefs[user_id]) = {}

\* C13: when a user has disabled all planner templates, a planned chat
\* request from that user produces a stream of exactly one frame: a planner
\* frame with status error whose content carries the "No agents are
\* currently enabled" message.  Stated for the requests whose planning
\* neither raises nor times out.
C13_NoAgentsSingleErrorFrame ==
  (/\ AllPlannerTemplatesDisabled
   /\ pc = "done"
   /\ stop \notin {"planner_error", "timeout"})
  => frames = << Frame("Analytical Planner", NO_AGENTS_MESSAGE, "error") >>

\* some key of the instruction payload names the step, whatever its case
\* and whatever the form the planner wrote the payload in
HoldsEntryFor(name) ==
  \E key \in plan_instructions.keys : NormalizeSegment(key) = name

EntryFor(name) ==
  CHOOSE key \in plan_instructions.keys : NormalizeSegment(key) = name

\* C15: for each executed plan step, the plan_instructions input passed to
\* the step's agent is the JSON encoding of the plan's instruction entry for
\* that step whenever the plan holds one, and the empty string only when it
\* holds none.
C15_InstructionsReachEveryStep ==
  InLoop =>
    \A i \in 1..Len(events) :
      IsLoaded(events[i].agent) =>
        events[i].inputs =
          IF HoldsEntryFor(events[i].agent)
          THEN JsonDumps(EntryFor(events[i].agent))
          ELSE ""

\* C19: a session never exposes another user's enabled templates: whenever
\* it serves a planned chat request for its currently bound user, the agents
\* the planner can choose from are those enabled for that user, never those
\* of a user previously bound to the same session.
C19_PlannerSeesBoundUsersAgents ==
  (pc # "idle" /\ user_id \in Users) =>
    /\ ai_user = user_id
    /\ agents = AgentsBuiltFor(user_id, prefs[user_id])

\* ---------------------------------------------------- properties: session
\* get_deep_analyzer has returned an analyzer
AnalyzerReturned == returned.called /\ ~returned.raised

\* the agent sets an analyzer constructed for the user can hold
AgentSetsFor(user) ==
  {DeepAgents(user, loaded) :
     loaded \in LoadPlannerTemplates(user, PrefsOf(user), TRUE)
                \cup LoadPlannerTemplates(user, PrefsOf(user), FALSE)}

\* C16: after the session's bound user changes from u1 to u2, a deep
\* analyzer built for u1 is never returned again: every get_deep_analyzer
\* call returns an analyzer whose agent set was constructed for the
\* session's current user, with deep_analyzer_user_id equal to the session's
\* user_id on return.
C16_AnalyzerOfCurrentUser ==
  AnalyzerReturned =>
    /\ returned.built_for = returned.user
    /\ returned.analyzer_user_id = returned.user
    /\ returned.agents \in AgentSetsFor(returned.user)

C16_Witness ==
  /\ AnalyzerReturned
  /\ returned.user = 2
  /\ returned.built_for = 2
  /\ 1 \in built_users
  /\ deep_analyzer_user_id = 2

\* C17: two consecutive get_deep_analyzer calls on the same session with no
\* change of bound user in between return the same cached analyzer: the
\* second call constructs no new analyzer and does not query the registry.
C17_SecondCallUsesCache ==
  (AnalyzerReturned /\ calls_since_change >= 2) =>
    /\ ~returned.constructed
    /\ ~returned.queried

ChatOperations == {"chat", "agent", "deep"}

\* no planner or agent has been invoked, no planned stream started, no frame
\* produced and no report row created
NothingStarted ==
  /\ pc = "idle"
  /\ invoked = << >>
  /\ lm_calls = << >>
  /\ frames = << >>
  /\ \A i \in Runs : reports[i] = NoRow
  /\ \A r \in Runs : runs[r].frames = << >> /\ runs[r].pc \in {"idle", "rejected"}

\* C20 as stated: for every chat operation, a request on a session with no
\* dataset is rejected with the no-dataset client error (400) before any
\* planner or agent is invoked, before any stream frame is produced and
\* before any report row is created.
C20_NoDatasetError ==
  ~has_df =>
    /\ NothingStarted
    /\ http_response.op \in ChatOperations =>
         http_response = Respond(http_response.op, 400, RESPONSE_ERROR_NO_DATASET)

\* C20 amended: for every chat operation, a request on a session with no
\* dataset is rejected with a client error (400), the no-dataset error or
\* the invalid-user_id error of the query-parameter check that runs before
\* the dataset check, and nothing is invoked, streamed or stored.
C20_NoDatasetRejected ==
  ~has_df =>
    /\ NothingStarted
    /\ http_response.op \in ChatOperations =>
         /\ http_response.status = 400
         /\ http_response.detail \in {RESPONSE_ERROR_NO_DATASET, INVALID_USER_ID}

C20_Witness ==
  /\ ~has_df
  /\ served = MaxRequests
  /\ http_response = Respond("agent", 400, RESPONSE_ERROR_NO_DATASET)
  /\ runs[1].pc = "rejected"
  /\ user_id = 2

\* ---------------------------------------------- properties: template registry
\* the active planner-capable templates enabled for the user, cut to the
\* ten most used, as the loader ranks them for one of the query orders
IsCappedEnabledSet(names, user) ==
  \E order \in QueryOrders :
     names = Range(RankedPlannerTemplates(preferences, user, order))

\* C21: the agents the planned AI system built for user u offers the planner
\* (basic_qa_agent aside) are the active templates of variant planner or both
\* that are enabled for u, explicitly or by default, cut to ten; a
\* default-enabled planner agent stays among them when u also enables a
\* template that is not enabled by default
C21_PlannerVisibleAgents ==
  (view.op = "auto_analyst" /\ view.user # 0 /\ view.status = 200)
    => IsCappedEnabledSet(view.names \ {BasicQA}, view.user)

\* the names for which the absence of a preference row means enabled
DefaultEnabledNames == CoreAgentNames \cup CorePlannerNames

\* C22: for a user with no preference row for template t, every place that
\* resolves enablement treats t as enabled exactly when t is a core agent or
\* the planner_ counterpart of one: the answer of the preference route (for
\* every variant_type) and the loader load_user_enabled_templates_from_db
C22_DefaultEnablement ==
  /\ (view.op \in VariantTypes /\ view.user # 0) =>
       \A t \in ListedTemplates(view.op) :
          FirstPreference(preferences, view.user, t) = << >> =>
            (t \in view.names <=> t \in DefaultEnabledNames)
  /\ (view.op = "loader" /\ view.user # 0) =>
       \A t \in TemplateNames :
          (AgentTemplates[t].is_active
             /\ FirstPreference(preferences, view.user, t) = << >>) =>
            (t \in view.names <=> t \in DefaultEnabledNames)

\* the planner templates enabled for the user the latest request was for
EnabledOfViewUser == EnabledPlannerTemplates(PreferenceOf(preferences, view.user))

\* the registry answered a request for a user's planner templates
PlannerTemplatesRead ==
  view.op \in {"enabled_for_planner", "planner_loader"} /\ view.user # 0

\* C23: when a user has more than ten enabled planner templates, the registry
\* (the loader and the route GET .../enabled/planner) returns exactly ten of
\* them, the ten highest by (usage_count, last_used_at) descending: no
\* enabled template it leaves out ranks above one it returns
C23_TopTenByUsage ==
  (PlannerTemplatesRead /\ Cardinality(EnabledOfViewUser) > PlannerTemplateCap) =>
     /\ Cardinality(view.names) = PlannerTemplateCap
     /\ Len(view.ranked) = PlannerTemplateCap
     /\ view.names \subseteq EnabledOfViewUser
     /\ \A a \in view.names, b \in EnabledOfViewUser \ view.names :
          UsageKeyAtLeast(preferences, view.user, a, b)
     /\ \A i \in 1..Len(view.ranked), j \in 1..Len(view.ranked) :
          i < j => UsageKeyAtLeast(preferences, view.user,
                                   view.ranked[i], view.ranked[j])

\* eleven planner templates are enabled, the registry was read, and the
\* answer holds a used template and leaves an enabled one out
C23_Witness ==
  /\ PlannerTemplatesRead
  /\ Cardinality(EnabledOfViewUser) > PlannerTemplateCap
  /\ \E a \in view.names : UsageCountOf(preferences, view.user, a) > 0
  /\ EnabledOfViewUser \ view.names # {}

\* the active templates of variant individual or both
ActiveIndividualTemplates ==
  {t \in TemplateNames :
     /\ AgentTemplates[t].is_active
     /\ AgentTemplates[t].variant_type \in {"individual", "both"}}

AfterToggle(tbl, user, t, is_enabled) ==
  ToggleTemplatePreference(tbl, user, t, is_enabled, TRUE).tbl

\* C25: from every reachable table, for every user u, template t and values
\* x and y, the toggle route serving toggle(u, t, x) and then toggle(u, t, y)
\* leaves the rows of u as serving toggle(u, t, y) alone leaves them
C25_LastToggleWins ==
  \A user \in Users, t \in ToggleTargets, x \in BOOLEAN, y \in BOOLEAN :
     AfterToggle(AfterToggle(preferences, user, t, x), user, t, y)[user]
       = AfterToggle(preferences, user, t, y)[user]

\* C26: at every point the preference store holds at most one row for each
\* (user, template) pair, also when a toggle and a usage-tracking write, or
\* two toggles, of the same pair have both queried the pair before either
\* committed and both found no row
C26_OneRowPerPair ==
  \A user \in Users, t \in TemplateNames : Len(preferences[user][t]) <= 1

\* a writer that had found no row for its pair committed after another writer
\* of the same pair had inserted one, and its insert was refused
C26_Witness ==
  /\ view.op \in {"toggle", "track"}
  /\ view.ranked = << "insert" >>
  /\ view.status = 400
  /\ \A t \in view.names : Len(preferences[view.user][t]) = 1

\* templates that are neither a core agent nor the planner_ counterpart of one
NonCoreTemplates == TemplateNames \ (CoreAgentNames \cup CorePlannerNames)

\* the steps of the plan whose agent call for template t returned
SuccessfulSteps(t) ==
  {i \in 1..Len(events) : events[i].agent = t /\ events[i].response # "error"}

\* C27: when the plan execution of a user has ended, the usage_count of every
\* non-core template has grown by the number of plan steps of that template
\* that executed successfully (so the total increase is the number of
\* successful non-core steps); failed and unloaded steps add nothing
C27_UsageMatchesSuccessfulSteps ==
  (pc = "done" /\ user_id # 0) =>
     \A t \in NonCoreTemplates : usage_count[t] = Cardinality(SuccessfulSteps(t))

\* the step is the execution of a core agent: one of the four in individual
\* mode, or the planner_ counterpart of one in a plan
CoreAgentExecuted ==
  /\ registry_requests' = registry_requests + 1
  /\ view'.op \in {"planned_call", "individual_call"}
  /\ view'.names \subseteq DefaultEnabledNames

\* C28: executing a core agent (in individual mode, or its planner_
\* counterpart in a plan) changes no usage_count and no last_used_at and
\* creates no preference row, for any user and template
C28_CoreAgentsExemptFromTracking ==
  [][CoreAgentExecuted => preferences' = preferences]_vars

\* C29: in the stream of a planned request of an identified user, every usage
\* record produced (one for the planner call, one for each agent step) is
\* eventually written to the usage store: once n records have been produced,
\* the store comes to hold at least n rows
C29_UsageRecordsWritten ==
  \A n \in 1..(MaxSteps + 1) :
     (user_id # 0 /\ Len(usage_records) >= n) ~> (model_usage >= n)

\* the step is a bulk-toggle request served for a user
BulkToggleServed ==
  /\ registry_requests' = registry_requests + 1
  /\ view'.op = "bulk_toggle"

\* C30: after any bulk-toggle request has completed, at most ten planner
\* templates are enabled for the user, whatever the request holds (enables
\* mixed with disables, a template named twice, values the templates already
\* have); checked for users who were within the cap before the request
C30_BulkToggleKeepsCap ==
  [][(BulkToggleServed /\ EnabledCount(preferences, view'.user) <= PlannerTemplateCap)
       => EnabledCount(preferences', view'.user) <= PlannerTemplateCap]_vars

\* C31: when the template store raises while the agents of an AI system
\* (planned or individual) are loaded for a user, the system holds the four
\* core agents (under their individual or their planner_ names) and not an
\* empty agent set
C31_CoreFallbackOnStoreError ==
  (view.op \in {"auto_analyst", "auto_analyst_ind"}
     /\ view.user # 0 /\ view.status = 500) =>
    \/ CoreAgentNames \subseteq view.names
    \/ CorePlannerNames \subseteq view.names

\* the agents whose latest call in the request raised
FailedAgents ==
  {called[i].agent : i \in {k \in 1..Len(called) :
      /\ called[k].outcome # "result"
      /\ \A later \in (k + 1)..Len(called) : called[later].agent # called[k].agent}}

\* named agents of the individual system forward has not called
NotCalled ==
  ({agent_list[i] : i \in 1..Len(agent_list)} \cap IndAgents)
    \ {called[i].agent : i \in 1..Len(called)}

\* C32: when forward has returned for a request naming one agent or several,
\* a call that failed has not kept any named agent of the individual system
\* from being called, and the returned mapping holds an {error} entry under
\* the own name of every agent that failed
C32_ErrorsKeyedByAgent ==
  ipc = "done" =>
     /\ \A name \in FailedAgents : Entry(name, "error") \in results
     /\ (\E i \in 1..Len(called) : called[i].outcome # "result") => NotCalled = {}

\* C33: a request to POST /chat/{agent_name} that passed the user and dataset
\* tests and names an agent the individual AI system does not load is
\* answered with 400 and the available-agents detail, and runs no agent
C33_UnavailableAgentRejected ==
  [][\A p \in UserParams, name \in AgentRequests,
        outcome \in {"result", "timeout", "raise"} :
       ( /\ ChatWithAgent(p, name, outcome)
         /\ Admission("agent", p) = NoResponse
         /\ name \notin IndividualLoaded(p) )
       => /\ http_response' = Respond("agent", 400, AGENT_NOT_FOUND)
          /\ invoked' = invoked]_vars

\* the planned stream's planning call ran out of time
PlanningTimedOut == pc = "get_plan" /\ pc' = "done" /\ stop' = "timeout"

\* the call of the loaded agent of the current plan step ran out of time
StepTimedOut ==
  /\ pc = "loop"
  /\ SplitPlan(planText)[idx] \in agents
  /\ \E db_ok \in BOOLEAN :
       StepCall(SplitPlan(planText)[idx], Len(SplitPlan(planText)), "timeout", db_ok)

\* C34: when the time of a planned request runs out, during planning or
\* during a plan step, the frame the caller receives next is the timeout
\* frame, not a generic error frame
C34_TimeoutFrameOnTimeout ==
  [][(PlanningTimedOut \/ StepTimedOut)
       => frames' = Append(frames, Frame("planner", TIMEOUT_MESSAGE, "error"))]_vars

\* C35: a chat request whose chat_id or user_id parameter is no integer is
\* answered with a client-error status
C35_MalformedIdentifierRejected ==
  ( /\ qpc = "done"
    /\ \/ query_params.chat_id # "absent" /\ ParseInt(query_params.chat_id) = -1
       \/ query_params.user_id # "absent" /\ ParseInt(query_params.user_id) = -1 )
  => http_response.status \in 400..499

\* C36: the cost of a call that used tokens is zero exactly when the model
\* is not in the rate table, and for a model of the table it is the input
\* tokens at that model's input rate plus the output tokens at its output rate
C36_CostFromOwnRates ==
  (cpc = "done" /\ input_tokens + output_tokens > 0) =>
     /\ cost = 0 <=> model_name \notin TableModels
     /\ \A i \in 1..Len(Providers) :
          model_name \in DOMAIN MODEL_COSTS[Providers[i]] =>
            cost = input_tokens * MODEL_COSTS[Providers[i]][model_name].input
                   + output_tokens * MODEL_COSTS[Providers[i]][model_name].output

\* the step is the execution of an agent of an AI system built for a user,
\* with its usage tracking
AgentCallServed ==
  /\ registry_requests' = registry_requests + 1
  /\ view'.op \in {"planned_call", "individual_call"}

\* C37: the execution of an agent and its usage tracking leave every
\* template's enabled status as it was, for every user: the templates enabled
\* for the planner and the templates enabled for individual use are the same
\* before and after
C37_TrackingKeepsEnablement ==
  [][AgentCallServed =>
       \A u \in Users :
          /\ EnabledPlannerTemplates(PreferenceOf(preferences', u))
               = EnabledPlannerTemplates(PreferenceOf(preferences, u))
          /\ LoadUserEnabledTemplates(preferences', u, TRUE)
               = LoadUserEnabledTemplates(preferences, u, TRUE)]_vars

\* the step is a single-toggle or a bulk-toggle request served for a user
ToggleRequestServed ==
  /\ registry_requests' = registry_requests + 1
  /\ view'.op \in {"toggle", "bulk_toggle"}

\* C38: a toggle or bulk-toggle request, accepted or refused, served for a
\* user who has an enabled planner template leaves that user with an enabled
\* planner template
C38_OneTemplateStaysEnabled ==
  [][(ToggleRequestServed /\ EnabledCount(preferences, view'.user) >= 1)
       => EnabledCount(preferences', view'.user) >= 1]_vars

\* C39: every change made to a stored report row is made by a step of the
\* run that row was created for
C39_UpdatesGoToOwnRow ==
  [][\A i \in Runs :
       (reports[i].status # "absent" /\ reports'[i] # reports[i])
       => \E r \in Runs : runs'[r] # runs[r] /\ runs[r].own = i]_vars

\* the step is the commit (or the refused commit) that ends one
\* _track_agent_usage call
TrackReturned ==
  /\ Len(pending') = Len(pending) - 1
  /\ view'.op = "track"

\* C40: each tracked execution that returns, whatever other writes of the
\* pair were in flight with it, leaves the stored usage_count of its (user,
\* template) pair one higher than it was, so that k of them add exactly k
C40_UsageIncrementsNotLost ==
  [][TrackReturned =>
       \A t \in view'.names :
          UsageCountOf(preferences', view'.user, t)
            = UsageCountOf(preferences, view'.user, t) + 1]_vars

====
